---- MODULE Spec2Model ----
(***************************************************************************)
(* The rules engine of the card game (benchmark/game.py): Deck, Player,    *)
(* Round, PlayerMove, JudgeDecision and Game with new_game, start_round,   *)
(* play_card and judge_round.  Python lists are sequences, a dict is a     *)
(* sequence of entries in insertion order, an Optional value is a sequence *)
(* of length at most one, and round numbers are 0-based as in the source   *)
(* (round k is rounds[k + 1]).                                             *)
(***************************************************************************)
EXTENDS Integers, Sequences, FiniteSets, Bags, TLC

\* ------------------------------------------------------------------ bounds
MaxPlayers == 3      \* games of 2 .. MaxPlayers players
RedCount == 5        \* red_cards.txt has RedCount - 1 or RedCount lines
GameSize == 5        \* players plus lines of green_cards.txt
MaxMembers == 2      \* members of a JSON object in a model response
MaxHand == 2         \* cards of a hand in the games model moves are asked in
MaxRounds == 2       \* --rounds of run_game

\* The calls of call_model the tests script for one move (test_model_move_retries).
MaxAttempts == 3

\* A card name that is in no card file ("Invalid Card" of the tests).
InvalidCard == 0

VARIABLES
    game,    \* the Game object
    last,    \* the most recent call on it and how it ended
    config,  \* the arguments and card files the game was created from
    call,    \* a call of a function of run.py: arguments, position, result
    driver   \* run_game: its arguments, position and local variables, with
             \* the game as the last closed round left it (closed) and the
             \* position an interruption arrived at (interrupt)

vars == <<game, last, config, call, driver>>

\* No function of run.py has been called, run_game is not running.
NoCall == [fn |-> "none"]
NoDriver == [pc |-> "none"]

\* ------------------------------------------------------------ Python values
None == <<>>
Some(x) == <<x>>
Get(opt) == opt[1]

Last(s) == s[Len(s)]
Front(s) == SubSeq(s, 1, Len(s) - 1)
Range(s) == {s[i] : i \in DOMAIN s}

\* list.remove(x): drops the first occurrence of x.
ListRemove(s, x) ==
    LET i == CHOOSE k \in 1..Len(s) : s[k] = x /\ \A j \in 1..(k - 1) : s[j] # x
    IN  SubSeq(s, 1, i - 1) \o SubSeq(s, i + 1, Len(s))

\* dict[key] = value on a dict kept as a sequence of entries: an existing key
\* keeps its position, a new key goes to the end.
DictKeys(d) == {d[i].player : i \in DOMAIN d}
DictSet(d, entry) ==
    IF entry.player \in DictKeys(d)
    THEN [i \in DOMAIN d |-> IF d[i].player = entry.player THEN entry ELSE d[i]]
    ELSE Append(d, entry)

\* ------------------------------------------------------------------- Deck
AllOrders(s) ==
    LET n == Len(s)
        Bij == {p \in [1..n -> 1..n] : \A i, j \in 1..n : p[i] = p[j] => i = j}
    IN  {[i \in 1..n |-> s[p[i]]] : p \in Bij}

\* random.shuffle: the orders the pile can come out in.
Shuffle(s) == AllOrders(s)

NewDeck(pile) == [draw_pile |-> pile, discard_pile |-> <<>>]

\* Deck.from_file: the non-blank lines of the file, shuffled.  The game only
\* compares card names for equality, so a file of different lines behaves in
\* every order as it does in one, with the names exchanged: the files are
\* explored in the order of their lines.
FromFile(lines) == {NewDeck(lines)}

DeckEmpty(deck) == deck.draw_pile = <<>> /\ deck.discard_pile = <<>>

\* Mutant: the card is taken from the front of the draw pile.
DrawFromFront(deck) ==
    LET piles == IF deck.draw_pile = <<>>
                 THEN {[draw_pile |-> pile, discard_pile |-> <<>>] :
                          pile \in Shuffle(deck.discard_pile)}
                 ELSE {deck}
    IN  {[card |-> d.draw_pile[1],
          deck |-> [d EXCEPT !.draw_pile = Tail(d.draw_pile)]] : d \in piles}

\* Deck.draw on a deck that is not empty: the card drawn and the deck left.
\* An empty draw pile is first refilled with the shuffled discard pile.
Draw(deck) ==
    LET piles == IF deck.draw_pile = <<>>
                 THEN {[draw_pile |-> pile, discard_pile |-> <<>>] :
                          pile \in Shuffle(deck.discard_pile)}
                 ELSE {deck}
    IN  {[card |-> Last(d.draw_pile),
          deck |-> [d EXCEPT !.draw_pile = Front(d.draw_pile)]] : d \in piles}

\* Deck.draw on any deck: ValueError on a deck with both piles empty, which
\* it leaves as it is, and the card drawn otherwise.
deck_draw(deck) ==
    IF DeckEmpty(deck)
    THEN {[exc |-> "ValueError", card |-> None, deck |-> deck]}
    ELSE {[exc |-> "none", card |-> Some(d.card), deck |-> d.deck] : d \in Draw(deck)}

\* Mutant: the played card is dropped instead of discarded.
DiscardLost(deck, card) == deck

\* Deck.discard
Discard(deck, card) == [deck EXCEPT !.discard_pile = Append(@, card)]

\* ------------------------------------------------------------------- Game
NoLog == "benchmark/logs/no_log.txt"

NumPlayers(g) == Cardinality(DOMAIN g.players)
PlayerIds(g) == DOMAIN g.players

\* The hand dealt to player i: cards_per_hand draws from the end of the pile.
DealtHand(pile, i, n) == [k \in 1..n |-> pile[Len(pile) - i * n - k + 1]]

\* BenchmarkStats(): the two times are unset.  A time is a reading of
\* time.time(); the game never compares two of them.
NewStats == [start_time |-> None, end_time |-> None]
Now == "time"

\* Game.new_game for nplayers names, on decks already read from their files.
\* Defined when the red deck holds a hand for everybody.
NewGame(nplayers, cards_per_hand, red, green, total_rounds) ==
    [players |-> [i \in 0..(nplayers - 1) |->
                    [name |-> i + 1,
                     hand |-> DealtHand(red.draw_pile, i, cards_per_hand),
                     won_rounds |-> <<>>]],
     rounds |-> <<>>,
     current_round |-> Some(0),
     total_rounds |-> total_rounds,
     benchmark_stats |-> NewStats,
     red_deck |-> [red EXCEPT !.draw_pile =
                      SubSeq(@, 1, Len(@) - nplayers * cards_per_hand)],
     green_deck |-> green]

Result(g, exc, msg, missing) ==
    [game |-> g, exc |-> exc, msg |-> msg, missing |-> missing]
Ok(g) == Result(g, "none", "none", {})
Raise(g, exc, msg) == Result(g, exc, msg, {})

\* Mutant: the judge index is not wrapped around the player count.
JudgeOfNoWrap(round_num, nplayers) == round_num

\* The judge of the round appended when round_num rounds exist.
JudgeOf(round_num, nplayers) == round_num % nplayers

NewRound(round_num, green_card, judge) ==
    [round_number |-> round_num, green_card |-> green_card, judge |-> judge,
     moves |-> <<>>, decision |-> None]

\* Mutant: start_round refuses to start a round while the latest has no decision.
start_round_guarded(g) ==
    IF g.rounds # <<>> /\ Last(g.rounds).decision = None
    THEN {Raise(g, "ValueError", "Round in progress")}
    ELSE IF DeckEmpty(g.green_deck)
    THEN {Raise(g, "ValueError", "No more green cards in deck")}
    ELSE {Ok([g EXCEPT !.green_deck = d.deck,
                       !.rounds = Append(@, NewRound(Len(g.rounds), d.card,
                                                     JudgeOf(Len(g.rounds), NumPlayers(g)))),
                       !.current_round = Some(Len(g.rounds))])
          : d \in Draw(g.green_deck)}

\* Game.start_round
start_round(g) ==
    IF DeckEmpty(g.green_deck)
    THEN {Raise(g, "ValueError", "No more green cards in deck")}
    ELSE {LET round_num == Len(g.rounds)
              judge == JudgeOf(round_num, NumPlayers(g))
          IN  Ok([g EXCEPT !.green_deck = d.deck,
                           !.rounds = Append(@, NewRound(round_num, d.card, judge)),
                           !.current_round = Some(round_num)])
          : d \in Draw(g.green_deck)}

\* The first guard of play_card.
NoActiveRound(g) ==
    g.current_round = None \/ Len(g.rounds) <= Get(g.current_round)

\* Mutants: a guard of play_card that never fires.
IsJudgeNever(round, player_index) == FALSE
AlreadyPlayedNever(round, player_index) == FALSE

\* The guards of play_card on the current round.
IsJudge(round, player_index) == player_index = round.judge
AlreadyPlayed(round, player_index) == player_index \in DictKeys(round.moves)

\* Mutant: the drawn card is not put into the hand.
HandAfterPlayNoDraw(hand, card, new_card) == ListRemove(hand, card)

\* The hand after the played card is replaced by the drawn one.
HandAfterPlay(hand, card, new_card) == Append(ListRemove(hand, card), new_card)

NewMove(player_index, card, thinking, new_card) ==
    [player |-> player_index, played_card |-> card, thinking |-> thinking,
     drawn_card |-> new_card, log_path |-> NoLog, raw_response |-> None]

\* Mutant: the card leaves the hand before the draw is attempted.
AfterFailedDrawHandChanged(g, player_index, card) ==
    [g EXCEPT !.players[player_index].hand = ListRemove(@, card)]

\* The game a failed draw leaves behind: red_deck.draw() is the first
\* statement of the try block and raises before anything is changed.
AfterFailedDraw(g, player_index, card) == g

\* Game.play_card, called without a model_response
play_card(g, player_index, card, thinking) ==
    IF NoActiveRound(g)
    THEN {Raise(g, "ValueError", "No active round")}
    ELSE LET cur == Get(g.current_round) + 1
             current_round == g.rounds[cur]
             player == g.players[player_index]
         IN  IF IsJudge(current_round, player_index)
             THEN {Raise(g, "ValueError", "is the judge and cannot play a card")}
             ELSE IF AlreadyPlayed(current_round, player_index)
             THEN {Raise(g, "ValueError", "has already played a card this round")}
             ELSE IF card \notin Range(player.hand)
             THEN {Raise(g, "ValueError", "is not in hand")}
             ELSE IF DeckEmpty(g.red_deck)
             THEN {Raise(AfterFailedDraw(g, player_index, card),
                         "ValueError", "No more red cards in deck")}
             ELSE {Ok([g EXCEPT
                         !.players[player_index].hand =
                             HandAfterPlay(@, card, d.card),
                         !.red_deck = Discard(d.deck, card),
                         !.rounds[cur].moves =
                             DictSet(@, NewMove(player_index, card, thinking, d.card))])
                   : d \in Draw(g.red_deck)}

\* set(range(len(players))) - {judge}
NonJudgePlayers(g, round) == (0..(NumPlayers(g) - 1)) \ {round.judge}

\* Mutant: every non-judge player is reported, moved or not.
MissingPlayersAll(g, round) == {g.players[i].name : i \in NonJudgePlayers(g, round)}

\* The names judge_round reports as still to play.
MissingPlayers(g, round) ==
    {g.players[i].name : i \in {j \in NonJudgePlayers(g, round) :
                                   j \notin DictKeys(round.moves)}}

\* Mutants: the scan accepts any card, or keeps the last match.
FindWinnerAny(moves, winning_card) ==
    IF moves = <<>> THEN None ELSE Some(moves[1].player)
FindWinnerLast(moves, winning_card) ==
    LET hits == {i \in DOMAIN moves : moves[i].played_card = winning_card}
    IN  IF hits = {} THEN None
        ELSE Some(moves[CHOOSE i \in hits : \A j \in hits : i >= j].player)

\* The scan of judge_round for the player of the winning card: the first
\* move, in insertion order, that played it; None when no move did.
FindWinner(moves, winning_card) ==
    LET hits == {i \in DOMAIN moves : moves[i].played_card = winning_card}
    IN  IF hits = {} THEN None
        ELSE Some(moves[CHOOSE i \in hits : \A j \in hits : i <= j].player)

\* Mutant: the decision names the first player as the winner.
NewDecisionOfFirst(winning_card, winning_player, reasoning) ==
    [winning_card |-> winning_card, winning_player |-> 0,
     reasoning |-> reasoning, log_path |-> NoLog, raw_response |-> None]

\* JudgeDecision(...) of judge_round
NewDecision(winning_card, winning_player, reasoning) ==
    [winning_card |-> winning_card, winning_player |-> winning_player,
     reasoning |-> reasoning, log_path |-> NoLog, raw_response |-> None]

\* Game.judge_round, called without a model_response
judge_round(g, winning_card, reasoning) ==
    IF g.current_round = None
    THEN {Raise(g, "ValueError", "No active round")}
    ELSE IF Get(g.current_round) >= Len(g.rounds)
    THEN {Raise(g, "IndexError", "list index out of range")}
    ELSE LET cur == Get(g.current_round) + 1
             current_round == g.rounds[cur]
             winning_player == FindWinner(current_round.moves, winning_card)
         IN  IF DictKeys(current_round.moves) # NonJudgePlayers(g, current_round)
             THEN {Result(g, "ValueError", "Waiting for players to play",
                          MissingPlayers(g, current_round))}
             ELSE IF winning_player = None
             THEN {Raise(g, "ValueError", "was not played this round")}
             ELSE {Ok([g EXCEPT
                         !.rounds[cur].decision =
                             Some(NewDecision(winning_card, Get(winning_player),
                                              reasoning)),
                         !.players[Get(winning_player)].won_rounds =
                             Append(@, Get(g.current_round))])}

\* --------------------------------------------------- save_game, load_game
\* The JSON document of a game.  json.dump writes the int keys of a dict as
\* strings and a dict as its items in insertion order, None as null, and a
\* Path, through path_serializer, as its text; a Path is kept in the model
\* as the text of the path.
Digits == <<"0", "1", "2", "3", "4", "5", "6", "7", "8", "9">>

\* str(i) for a key of a dict, and int(s) of the validation of Dict[int, ...]
IntKey(i) == Digits[i + 1]
KeyInt(s) == (CHOOSE k \in DOMAIN Digits : Digits[k] = s) - 1

JsonNull == [type |-> "null"]
JsonOf(x) == [type |-> "value", v |-> x]
DumpOptional(opt) == IF opt = None THEN JsonNull ELSE JsonOf(Get(opt))
LoadOptional(j) == IF j.type = "null" THEN None ELSE Some(j.v)

\* Sorted by key: the items of a dict in the order of their keys.
SortedByKey(items) ==
    LET n == Len(items)
        rank(i) == Cardinality({j \in 1..n : KeyInt(items[j].key) < KeyInt(items[i].key)}) + 1
    IN  [k \in 1..n |-> items[CHOOSE i \in 1..n : rank(i) = k]]

DumpMove(move) ==
    [key |-> IntKey(move.player),
     value |-> [played_card |-> move.played_card, thinking |-> move.thinking,
                drawn_card |-> move.drawn_card, log_path |-> move.log_path,
                raw_response |-> DumpOptional(move.raw_response)]]

\* Mutant: json.dump with sort_keys, the moves come out in the order of the players.
DumpMovesSorted(moves) == SortedByKey([i \in DOMAIN moves |-> DumpMove(moves[i])])

\* Round.moves, a dict in insertion order
DumpMoves(moves) == [i \in DOMAIN moves |-> DumpMove(moves[i])]

\* JudgeDecision: raw_response is Optional[str]
DumpDecision(decision) == [decision EXCEPT !.raw_response = DumpOptional(@)]
LoadDecision(j) == [j EXCEPT !.raw_response = LoadOptional(@)]

DumpRound(round) ==
    [round_number |-> round.round_number, green_card |-> round.green_card,
     judge |-> round.judge, moves |-> DumpMoves(round.moves),
     decision |-> IF round.decision = None THEN JsonNull
                  ELSE JsonOf(DumpDecision(Get(round.decision)))]

DumpPlayers(players) ==
    [k \in 1..Cardinality(DOMAIN players) |->
        [key |-> IntKey(k - 1), value |-> players[k - 1]]]

\* Game.save_game: json.dump(self.model_dump(), default=path_serializer)
save_game(g) ==
    [players |-> DumpPlayers(g.players),
     rounds |-> [k \in DOMAIN g.rounds |-> DumpRound(g.rounds[k])],
     current_round |-> DumpOptional(g.current_round),
     total_rounds |-> g.total_rounds,
     red_deck |-> g.red_deck,
     green_deck |-> g.green_deck,
     benchmark_stats |-> [start_time |-> DumpOptional(g.benchmark_stats.start_time),
                          end_time |-> DumpOptional(g.benchmark_stats.end_time)]]

LoadMove(item) ==
    [player |-> KeyInt(item.key), played_card |-> item.value.played_card,
     thinking |-> item.value.thinking, drawn_card |-> item.value.drawn_card,
     log_path |-> item.value.log_path,
     raw_response |-> LoadOptional(item.value.raw_response)]

LoadRound(round) ==
    [round_number |-> round.round_number, green_card |-> round.green_card,
     judge |-> round.judge,
     moves |-> [i \in DOMAIN round.moves |-> LoadMove(round.moves[i])],
     decision |-> IF round.decision.type = "null" THEN None
                  ELSE Some(LoadDecision(round.decision.v))]

LoadPlayers(items) ==
    [i \in {KeyInt(items[k].key) : k \in DOMAIN items} |->
        (CHOOSE item \in Range(items) : KeyInt(item.key) = i).value]

\* Game.load_game: json.load, the log paths made Path again, model_validate
load_game(data) ==
    [players |-> LoadPlayers(data.players),
     rounds |-> [k \in DOMAIN data.rounds |-> LoadRound(data.rounds[k])],
     current_round |-> LoadOptional(data.current_round),
     total_rounds |-> data.total_rounds,
     benchmark_stats |-> [start_time |-> LoadOptional(data.benchmark_stats.start_time),
                          end_time |-> LoadOptional(data.benchmark_stats.end_time)],
     red_deck |-> data.red_deck,
     green_deck |-> data.green_deck]

\* ------------------------------------------------------- text (run.py)
\* A str is a sequence of characters; the characters are one-character strings.
Alphabet == <<"a", "b", "c", "d", "e", "f", "g", "h", "i", "j", "k", "l", "m",
              "n", "o", "p", "q", "r", "s", "t", "u", "v", "w", "x", "y", "z">>
Capitals == <<"A", "B", "C", "D", "E", "F", "G", "H", "I", "J", "K", "L", "M",
              "N", "O", "P", "Q", "R", "S", "T", "U", "V", "W", "X", "Y", "Z">>

\* c.isalpha() and c.lower() on the characters above, digits and punctuation.
IsAlpha(c) == c \in Range(Alphabet) \cup Range(Capitals)
Lower(c) ==
    IF c \in Range(Capitals)
    THEN Alphabet[CHOOSE i \in DOMAIN Capitals : Capitals[i] = c]
    ELSE c

\* Mutant: the characters that are not letters are kept.
normalize_card_name_keeps_all(card) == [i \in DOMAIN card |-> Lower(card[i])]

\* normalize_card_name: "".join(c.lower() for c in card if c.isalpha())
RECURSIVE normalize_card_name(_)
normalize_card_name(card) ==
    IF card = <<>> THEN <<>>
    ELSE IF IsAlpha(card[1])
         THEN <<Lower(card[1])>> \o normalize_card_name(Tail(card))
         ELSE normalize_card_name(Tail(card))

\* The characters str.strip() removes.
IsSpace(c) == c \in {" ", "\n"}

\* str.strip(): the text without its leading and trailing whitespace.
Strip(s) ==
    LET inside == {i \in DOMAIN s : ~IsSpace(s[i])}
    IN  IF inside = {} THEN <<>>
        ELSE SubSeq(s, CHOOSE i \in inside : \A j \in inside : i <= j,
                       CHOOSE i \in inside : \A j \in inside : i >= j)

\* ------------------------------------------------- model responses as text
\* The content of a response is a sequence of lines, a line a sequence of
\* tokens: a code fence, white space, a punctuation mark of JSON, a string
\* literal with its characters, a number, null, or a word that is no JSON.
Tok(t) == [t |-> t, s |-> <<>>]
StrTok(chars) == [t |-> "str", s |-> chars]
Fence == Tok("fence")
IsWs(tok) == tok.t \in {" ", "\n"}

\* content.startswith of three backquotes, the mark of a code block
StartsWithFence(content) ==
    content # <<>> /\ content[1] # <<>> /\ content[1][1] = Fence

\* "\n".join(lines)
RECURSIVE JoinLines(_)
JoinLines(lines) ==
    IF lines = <<>> THEN <<>>
    ELSE IF Len(lines) = 1 THEN lines[1]
    ELSE lines[1] \o <<Tok("\n")>> \o JoinLines(Tail(lines))

\* "\n".join(content.split("\n")[1:-1])
DropFenceLines(content) == JoinLines(SubSeq(content, 2, Len(content) - 1))

\* content.strip() on tokens
StripTokens(toks) ==
    LET inside == {i \in DOMAIN toks : ~IsWs(toks[i])}
    IN  IF inside = {} THEN <<>>
        ELSE SubSeq(toks, CHOOSE i \in inside : \A j \in inside : i <= j,
                          CHOOSE i \in inside : \A j \in inside : i >= j)

\* json.loads: the values and the scanner.
JsonValue(type, v) == [type |-> type, v |-> v]
ParseFail == [ok |-> FALSE, val |-> JsonValue("none", <<>>), next |-> 0]
ParseOk(val, next) == [ok |-> TRUE, val |-> val, next |-> next]

\* The first position from i on that holds no white space.
RECURSIVE SkipWs(_, _)
SkipWs(toks, i) ==
    IF i <= Len(toks) /\ IsWs(toks[i]) THEN SkipWs(toks, i + 1) ELSE i

TokAt(toks, i) == IF i <= Len(toks) THEN toks[i].t ELSE "end"

RECURSIVE ParseValue(_, _)
RECURSIVE ParseMembers(_, _, _)
RECURSIVE ParseElements(_, _, _)

\* "string" : value { , "string" : value } "}"
ParseMembers(toks, i, acc) ==
    LET j == SkipWs(toks, i)
        k == SkipWs(toks, j + 1)
    IN  IF TokAt(toks, j) # "str" \/ TokAt(toks, k) # ":" THEN ParseFail
        ELSE LET v == ParseValue(toks, k + 1)
                 m == SkipWs(toks, v.next)
                 members == Append(acc, [key |-> toks[j].s, val |-> v.val])
             IN  IF ~v.ok THEN ParseFail
                 ELSE IF TokAt(toks, m) = "," THEN ParseMembers(toks, m + 1, members)
                 ELSE IF TokAt(toks, m) = "}"
                 THEN ParseOk(JsonValue("object", members), m + 1)
                 ELSE ParseFail

\* value { , value } "]"
ParseElements(toks, i, acc) ==
    LET v == ParseValue(toks, i)
        m == SkipWs(toks, v.next)
    IN  IF ~v.ok THEN ParseFail
        ELSE IF TokAt(toks, m) = "," THEN ParseElements(toks, m + 1, Append(acc, v.val))
        ELSE IF TokAt(toks, m) = "]"
        THEN ParseOk(JsonValue("array", Append(acc, v.val)), m + 1)
        ELSE ParseFail

ParseValue(toks, i) ==
    LET j == SkipWs(toks, i)
        t == TokAt(toks, j)
    IN  IF t = "str" THEN ParseOk(JsonValue("str", toks[j].s), j + 1)
        ELSE IF t = "0" THEN ParseOk(JsonValue("int", <<>>), j + 1)
        ELSE IF t = "null" THEN ParseOk(JsonValue("null", <<>>), j + 1)
        ELSE IF t = "{"
        THEN IF TokAt(toks, SkipWs(toks, j + 1)) = "}"
             THEN ParseOk(JsonValue("object", <<>>), SkipWs(toks, j + 1) + 1)
             ELSE ParseMembers(toks, j + 1, <<>>)
        ELSE IF t = "["
        THEN IF TokAt(toks, SkipWs(toks, j + 1)) = "]"
             THEN ParseOk(JsonValue("array", <<>>), SkipWs(toks, j + 1) + 1)
             ELSE ParseElements(toks, j + 1, <<>>)
        ELSE ParseFail

\* json.loads(content, strict=False): one value and nothing after it but
\* white space; ok is FALSE where it raises JSONDecodeError.
JsonLoads(toks) ==
    LET r == ParseValue(toks, 1)
    IN  IF r.ok /\ SkipWs(toks, r.next) > Len(toks) THEN r ELSE ParseFail

\* key in response_data and response_data[key] on a parsed object: of several
\* members of one key the last is the one the dict holds.
HasKey(obj, key) == \E i \in DOMAIN obj.v : obj.v[i].key = key
Lookup(obj, key) ==
    obj.v[CHOOSE i \in DOMAIN obj.v :
             /\ obj.v[i].key = key
             /\ \A j \in DOMAIN obj.v : obj.v[j].key = key => j <= i].val

ReasoningKey == <<"r", "e", "a", "s", "o", "n", "i", "n", "g">>
CardKey == <<"c", "a", "r", "d">>

\* What a call of parse_model_response comes to: the pair returned, or the
\* exception raised.
Parsed(thinking, card) ==
    [exc |-> "none", msg |-> "none", thinking |-> thinking, card |-> card]
ParseRaise(exc, msg) == [exc |-> exc, msg |-> msg, thinking |-> <<>>, card |-> <<>>]

\* parse_model_response
parse_model_response(content) ==
    LET unfenced == IF StartsWithFence(content) THEN DropFenceLines(content)
                    ELSE JoinLines(content)
        stripped == StripTokens(unfenced)
        loaded == JsonLoads(stripped)
        response_data == loaded.val
    IN  IF ~loaded.ok THEN ParseRaise("ValueError", "Invalid JSON response")
        ELSE IF response_data.type # "object"
        THEN ParseRaise("ValueError", "Response must be a JSON object")
        ELSE IF ~HasKey(response_data, ReasoningKey) \/ ~HasKey(response_data, CardKey)
        THEN ParseRaise("ValueError", "Response must contain reasoning and card fields")
        ELSE IF Lookup(response_data, ReasoningKey).type # "str"
        THEN ParseRaise("AttributeError", "object has no attribute strip")
        ELSE IF Lookup(response_data, CardKey).type # "str"
        THEN ParseRaise("AttributeError", "object has no attribute strip")
        ELSE Parsed(Strip(Lookup(response_data, ReasoningKey).v),
                    Strip(Lookup(response_data, CardKey).v))

\* ------------------------------------------------------------ inputs, Init
\* The card files: red_cards.txt with all lines different, or with its last
\* line repeating its first, of two lengths; green_cards.txt with all lines different, the
\* shorter the more players there are.
RedFiles ==
    UNION {{[i \in 1..n |-> i], [i \in 1..n |-> IF i = n THEN 1 ELSE i]} :
              n \in (RedCount - 1)..RedCount}
GreenFile(nplayers) == [i \in 1..(GameSize - nplayers) |-> 100 + i]

Texts == {"text"}

\* The cards a caller passes to play_card: one of the player's hand, or a name
\* that is in nobody's hand.
PlayChoices(g, player_index) == Range(g.players[player_index].hand) \cup {InvalidCard}

\* The cards a caller passes to judge_round: one played in the latest round, one
\* held in a hand, or a name that is neither.
JudgeChoices(g) ==
    (IF g.rounds = <<>> THEN {}
     ELSE {Last(g.rounds).moves[i].played_card : i \in DOMAIN Last(g.rounds).moves})
    \cup Range(g.players[0].hand) \cup {InvalidCard}

\* What a call leaves behind for its caller: the exception raised, if any.
Call(op, r) == [op |-> op, exc |-> r.exc, msg |-> r.msg, missing |-> r.missing]

Init ==
    \E nplayers \in 2..MaxPlayers, cards_per_hand \in 1..RedCount, file \in RedFiles :
        /\ nplayers * cards_per_hand <= Len(file)
        /\ \E red \in FromFile(file), green \in FromFile(GreenFile(nplayers)) :
              game = NewGame(nplayers, cards_per_hand, red, green,
                             Len(GreenFile(nplayers)))
        /\ config = [cards_per_hand |-> cards_per_hand, red_cards |-> file,
                     green_cards |-> GreenFile(nplayers)]
        /\ last = [op |-> "new_game", exc |-> "none", msg |-> "none", missing |-> {}]
        /\ call = NoCall
        /\ driver = NoDriver

\* ---------------------------------------------------------------- actions
StartRound ==
    \E r \in start_round(game) :
        /\ game' = r.game
        /\ last' = Call("start_round", r)
        /\ UNCHANGED <<config, call, driver>>

PlayCard ==
    \E player_index \in PlayerIds(game), thinking \in Texts :
      \E card \in PlayChoices(game, player_index) :
        \E r \in play_card(game, player_index, card, thinking) :
            /\ game' = r.game
            /\ last' = Call("play_card", r)
            /\ UNCHANGED <<config, call, driver>>

\* The number of entries of all won_rounds lists.
TotalWins(g) ==
    LET RECURSIVE Sum(_)
        Sum(S) == IF S = {} THEN 0
                  ELSE LET p == CHOOSE q \in S : TRUE
                       IN  Len(g.players[p].won_rounds) + Sum(S \ {p})
    IN  Sum(PlayerIds(g))

\* won_rounds grows with every judgement: judge_round is explored while fewer
\* rounds have been won than green_cards.txt has lines.
JudgeRound ==
    /\ TotalWins(game) < Len(config.green_cards)
    /\ \E winning_card \in JudgeChoices(game), reasoning \in Texts :
          \E r \in judge_round(game, winning_card, reasoning) :
            /\ game' = r.game
            /\ last' = Call("judge_round", r)
            /\ UNCHANGED <<config, call, driver>>

Next == StartRound \/ PlayCard \/ JudgeRound

Spec == Init /\ [][Next]_vars

\* ------------------------------------------------ handle_model_interaction
\* The thinking returned with a card is text put together from parts: words
\* of the program, a str of the response, the str() of an exception, the
\* content of a response.
NoError == [exc |-> "none", msg |-> "none"]
Part(kind, lit, str, err, raw) ==
    [kind |-> kind, lit |-> lit, str |-> str, err |-> err, raw |-> raw]
Lit(text) == Part("lit", text, <<>>, NoError, <<>>)
StrPart(chars) == Part("str", "", chars, NoError, <<>>)
ErrPart(e) == Part("error", "", <<>>, e, <<>>)
RawPart(content) == Part("content", "", <<>>, NoError, content)

\* What await call_model(model, messages) comes to: an exception, or a
\* ModelResponse with its content and the path of the log call_model wrote.
CallFailed == [raised |-> TRUE, exc |-> "Exception", content |-> <<>>, log_path |-> None]
Response(content, log) ==
    [raised |-> FALSE, exc |-> "none", content |-> content, log_path |-> Some(log)]

\* A (card, thinking, log_path) returned, or an exception that escapes.
Move(card, thinking, log_path) ==
    [exc |-> "none", card |-> card, thinking |-> thinking, log_path |-> log_path]
Escapes(exc) == [exc |-> exc, card |-> <<>>, thinking |-> <<>>, log_path |-> None]

\* Mutant: the fallback looks into every hand of the game.
random_player_move_any_hand(g, player_idx) ==
    {Move(c, <<Lit("Random selection")>>, None) :
        c \in UNION {Range(g.players[p].hand) : p \in PlayerIds(g)}}

\* random_player_move: random.choice raises IndexError on an empty hand.
random_player_move(g, player_idx) ==
    IF g.players[player_idx].hand = <<>> THEN {Escapes("IndexError")}
    ELSE {Move(c, <<Lit("Random selection")>>, None) :
             c \in Range(g.players[player_idx].hand)}

\* random_judge_move of model_judge_move, on the moves of the latest round.
random_judge_move(g, judge) ==
    LET moves == Last(g.rounds).moves
    IN  IF moves = <<>> THEN {Escapes("IndexError")}
        ELSE {Move(moves[i].played_card, <<Lit("Random selection")>>, None) :
                 i \in DOMAIN moves}

\* Mutant: only ValueError is caught.
CaughtValueErrorOnly(exc) == exc = "ValueError"

\* except Exception: every exception of the call, the parse and the match.
Caught(exc) == TRUE

\* Mutant: the fallback forgets the log of the response it could not use.
FallbackLogPathDropped(model_response) == None

\* The log path returned with a fallback made after a response.
FallbackLogPath(model_response) == model_response.log_path

\* The for loop over valid_cards: the first legal card whose normalized name
\* is that of the chosen card; None where the loop runs into its else.
Match(valid_cards, card) ==
    LET hits == {i \in DOMAIN valid_cards :
                    normalize_card_name(valid_cards[i]) = normalize_card_name(card)}
    IN  IF hits = {} THEN None
        ELSE Some(valid_cards[CHOOSE i \in hits : \A j \in hits : i <= j])

\* The except branch: what is returned in place of the failed answer.
\* fallback is what fallback_fn(*fallback_args) can return.
Fallback(reply, e, fallback) ==
    IF ~Caught(e.exc) THEN {Escapes(e.exc)}
    ELSE IF reply.raised
    THEN {IF f.exc = "none" THEN Move(f.card, f.thinking, None) ELSE f : f \in fallback}
    ELSE {IF f.exc = "none"
          THEN Move(f.card,
                    <<Lit("Random selection"), Lit(" (model failed: "), ErrPart(e),
                      Lit(")\nRaw response: "), RawPart(reply.content)>>,
                    FallbackLogPath(reply))
          ELSE f : f \in fallback}

\* handle_model_interaction from the return of call_model on: reply is what
\* the one call came to.
handle_model_interaction(reply, valid_cards, role, fallback) ==
    IF reply.raised
    THEN Fallback(reply, [exc |-> reply.exc, msg |-> "call_model failed"], fallback)
    ELSE LET parsed == parse_model_response(reply.content)
             found == Match(valid_cards, parsed.card)
         IN  IF parsed.exc # "none"
             THEN Fallback(reply, [exc |-> parsed.exc, msg |-> parsed.msg], fallback)
             ELSE IF found = None
             THEN Fallback(reply, [exc |-> "ValueError",
                                   msg |-> "Model chose card which is not in valid cards"],
                           fallback)
             ELSE {Move(Get(found), <<StrPart(parsed.thinking)>>, reply.log_path)}

\* model_player_move: the legal cards are the hand of the player.
model_player_move(g, player_idx, reply) ==
    handle_model_interaction(reply, g.players[player_idx].hand, "player",
                             random_player_move(g, player_idx))

\* model_judge_move: the legal cards are the played cards of the latest round.
JudgePlayedCards(g) ==
    [i \in DOMAIN Last(g.rounds).moves |-> Last(g.rounds).moves[i].played_card]
model_judge_move(g, reply) ==
    handle_model_interaction(reply, JudgePlayedCards(g), "judge",
                             random_judge_move(g, Last(g.rounds).judge))

\* ------------------------------------------- parse_model_response, called
\* The responses parse_model_response is called on: an object of up to
\* MaxMembers members, an array of their values, an object without its closing
\* brace, a lone value, a word, nothing; on one line, on lines of their own
\* between blank lines, one token a line, between the lines of a code block,
\* and with the marks of a code block on the line of the text.
ThoughtKey == <<"t", "h", "o", "u", "g", "h", "t">>
ValueTokens == {StrTok(<<"a">>), StrTok(<<" ", "A", ".", "\n">>), Tok("0"), Tok("null")}
Members == [key : {ReasoningKey, CardKey, ThoughtKey}, val : ValueTokens]
MemberLists == UNION {[1..n -> Members] : n \in 0..MaxMembers}

RECURSIVE RenderMembers(_)
RenderMembers(ms) ==
    IF ms = <<>> THEN <<>>
    ELSE <<StrTok(ms[1].key), Tok(":"), Tok(" "), ms[1].val>>
         \o (IF Len(ms) = 1 THEN <<>> ELSE <<Tok(","), Tok(" ")>>)
         \o RenderMembers(Tail(ms))

RECURSIVE RenderValues(_)
RenderValues(ms) ==
    IF ms = <<>> THEN <<>>
    ELSE <<ms[1].val>> \o (IF Len(ms) = 1 THEN <<>> ELSE <<Tok(",")>>)
         \o RenderValues(Tail(ms))

Bodies ==
    {<<Tok("{")>> \o RenderMembers(ms) \o <<Tok("}")>> : ms \in MemberLists}
    \cup {<<Tok("[")>> \o RenderValues(ms) \o <<Tok("]")>> : ms \in MemberLists}
    \cup {<<Tok("{")>> \o RenderMembers(ms) : ms \in MemberLists}
    \cup {<<v>> : v \in ValueTokens} \cup {<<Tok("x")>>, <<>>}

Layouts(body) ==
    {<<body>>,
     <<<<>>, <<Tok(" ")>> \o body \o <<Tok(" ")>>, <<>>>>,
     [i \in 1..Len(body) |-> <<body[i]>>],
     <<<<Fence, Tok("json")>>, body, <<Fence>>>>,
     <<<<Fence>> \o body \o <<Fence>>>>}

Contents == UNION {Layouts(body) : body \in Bodies}

ParseInit ==
    /\ call \in {[fn |-> "parse_model_response", pc |-> "called", content |-> c,
                  result |-> None] : c \in Contents}
    /\ game = NewGame(2, 1, NewDeck(<<1, 2>>), NewDeck(<<101>>), 1)
    /\ config = [cards_per_hand |-> 1, red_cards |-> <<1, 2>>, green_cards |-> <<101>>]
    /\ last = [op |-> "new_game", exc |-> "none", msg |-> "none", missing |-> {}]
    /\ driver = NoDriver

ParseModelResponse ==
    /\ call.fn = "parse_model_response"
    /\ call.pc = "called"
    /\ call' = [call EXCEPT !.pc = "returned",
                            !.result = Some(parse_model_response(call.content))]
    /\ UNCHANGED <<game, last, config, driver>>

ParseNext == ParseModelResponse

ParseSpec == ParseInit /\ [][ParseNext]_vars

\* ------------------------------------------ handle_model_interaction, called
\* Card names as text: names that differ in case, punctuation and spacing
\* only, and names that differ in their letters.
TextCards ==
    <<<<"a">>, <<"A", ".">>, <<"b">>, <<"a", " ", "b">>, <<"B">>, <<"c">>, <<"A", "b">>,
      <<"c", "a">>, <<"C">>, <<"b", "a">>, <<"b", "c">>, <<"c", "b">>, <<"a", "c">>>>
TopicCards == <<<<"g">>, <<"h">>, <<"k">>, <<"m">>>>

\* red_cards.txt of n lines, in the order the shuffle leaves them in: from
\* line k on and round to the line before it.
TextFile(n, k) == [i \in 1..n |-> TextCards[((i + k - 2) % n) + 1]]

\* The content of a response that is no JSON, that chooses a card, and that
\* has null for its card.
Malformed == <<<<Tok("x")>>>>
Choosing(card) ==
    <<<<Tok("{"), StrTok(ReasoningKey), Tok(":"), StrTok(<<"o", "k">>), Tok(","),
        StrTok(CardKey), Tok(":"), StrTok(card), Tok("}")>>>>
ChoosingNull ==
    <<<<Tok("{"), StrTok(ReasoningKey), Tok(":"), StrTok(<<"o", "k">>), Tok(","),
        StrTok(CardKey), Tok(":"), Tok("null"), Tok("}")>>>>

\* The logs call_model writes, one a call.
LogNames == <<"model_call_001.log", "model_call_002.log", "model_call_003.log">>

\* What the k-th call of call_model for a move can come to.
Replies(k) ==
    {CallFailed, Response(Malformed, LogNames[k]), Response(ChoosingNull, LogNames[k]),
     Response(Choosing(<<" ", "A", "!">>), LogNames[k]),
     Response(Choosing(<<"b">>), LogNames[k])}

\* The agent as the tests script it: what each of its calls in turn comes to.
AgentScripts == {<<r1, r2, r3>> : r1 \in Replies(1), r2 \in Replies(2), r3 \in Replies(3)}

\* The games a move is asked in: three players, the first round started, the
\* judge is player 0.
StartedGames ==
    UNION {{r.game : r \in start_round(
                NewGame(3, n, NewDeck(TextFile(3 * MaxHand + 1, k)),
                        NewDeck(<<TopicCards[1]>>), 1))} :
           n \in 1..MaxHand, k \in 1..(3 * MaxHand + 1)}

\* The games after player 1 and player 2 have each played a card of their hand.
PlayedBy(gs, player_idx) ==
    UNION {UNION {{r.game : r \in play_card(g, player_idx, c, "text")} :
                     c \in Range(g.players[player_idx].hand)} : g \in gs}
JudgedGames == PlayedBy(PlayedBy(StartedGames, 1), 2)

\* The calls of handle_model_interaction: by model_player_move for player 1
\* or 2 of a started game, by model_judge_move when both have played.
MoveRequests ==
    {[game |-> g, role |-> "player", player |-> p,
      valid_cards |-> g.players[p].hand] : g \in StartedGames, p \in {1, 2}}
    \cup {[game |-> g, role |-> "judge", player |-> 0,
           valid_cards |-> JudgePlayedCards(g)] : g \in JudgedGames}

OrchInit ==
    \E req \in MoveRequests, agent \in AgentScripts :
        /\ call = [fn |-> "handle_model_interaction", pc |-> "called",
                   role |-> req.role, player |-> req.player,
                   valid_cards |-> req.valid_cards, agent |-> agent,
                   messages |-> <<"prompt">>, calls |-> 0, result |-> None]
        /\ game = req.game
        /\ config = [cards_per_hand |-> Len(req.game.players[0].hand),
                     red_cards |-> <<>>, green_cards |-> <<TopicCards[1]>>]
        /\ last = [op |-> "new_game", exc |-> "none", msg |-> "none", missing |-> {}]
        /\ driver = NoDriver

\* model_response = await call_model(model, messages): the call is made.
CallModel ==
    /\ call.fn = "handle_model_interaction"
    /\ call.pc = "called"
    /\ call' = [call EXCEPT !.pc = "awaiting", !.calls = @ + 1]
    /\ UNCHANGED <<game, last, config, driver>>

\* call_model returns or raises, and handle_model_interaction runs to its end.
ModelReplies ==
    /\ call.fn = "handle_model_interaction"
    /\ call.pc = "awaiting"
    /\ \E r \in (IF call.role = "player"
                 THEN model_player_move(game, call.player, call.agent[call.calls])
                 ELSE model_judge_move(game, call.agent[call.calls])) :
          call' = [call EXCEPT !.pc = "returned", !.result = Some(r)]
    /\ UNCHANGED <<game, last, config, driver>>

OrchNext == CallModel \/ ModelReplies

OrchSpec == OrchInit /\ [][OrchNext]_vars

\* ---------------------------------------------------------------- run_game
\* The runs: two players with hands of 1 .. MaxHand cards or three players
\* with one card each, a red_cards.txt that the deal uses up or that has one
\* card more, a green_cards.txt of MaxRounds lines, --rounds of 1 .. MaxRounds + 1,
\* and every player random or a model.
RunGames ==
    {[players |-> 2, cards_per_hand |-> n, spare |-> e] : n \in 1..MaxHand, e \in 0..1}
    \cup {[players |-> 3, cards_per_hand |-> 1, spare |-> e] : e \in 0..1}

RunRedFile(rg) == TextFile(rg.players * rg.cards_per_hand + rg.spare, 1)
RunGreenFile == [i \in 1..MaxRounds |-> TopicCards[i]]

\* What call_model can come to in a run: it raises, or returns a response
\* that chooses one of the legal cards, written in capitals.
Upper(c) ==
    IF c \in Range(Alphabet)
    THEN Capitals[CHOOSE i \in DOMAIN Alphabet : Alphabet[i] = c]
    ELSE c
RunReplies(valid_cards) ==
    {CallFailed}
    \cup {Response(Choosing([i \in DOMAIN valid_cards[k] |-> Upper(valid_cards[k][i])]),
                   LogNames[1]) : k \in DOMAIN valid_cards}

\* judge_round and the replacement of the decision by one with the log path.
Judged(g, move) ==
    {IF r.exc # "none" THEN r
     ELSE [r EXCEPT !.game.rounds[Len(g.rounds)].decision =
             Some([Get(@) EXCEPT !.log_path =
                     IF move.log_path = None THEN NoLog ELSE Get(move.log_path)])]
     : r \in judge_round(g, move.card, move.thinking)}

\* Mutant: the interruption of a round puts its green card back on the deck.
PopUndecided_returns_card(g) ==
    IF g.rounds # <<>> /\ Last(g.rounds).decision = None
    THEN [g EXCEPT !.rounds = Front(@),
                   !.green_deck.draw_pile = Append(@, Last(g.rounds).green_card)]
    ELSE g

\* Mutant: the interruption of a round clears the rounds played before it.
PopUndecided_clears(g) ==
    IF g.rounds # <<>> /\ Last(g.rounds).decision = None
    THEN [g EXCEPT !.rounds = <<>>]
    ELSE g

\* except KeyboardInterrupt: a last round without decision is removed.
PopUndecided(g) ==
    IF g.rounds # <<>> /\ Last(g.rounds).decision = None
    THEN [g EXCEPT !.rounds = Front(@)]
    ELSE g

\* A new game of run_game: new_game, and the start time is taken.
FreshGame(rg, num_rounds) ==
    [NewGame(rg.players, rg.cards_per_hand, NewDeck(RunRedFile(rg)),
             NewDeck(RunGreenFile), num_rounds)
        EXCEPT !.benchmark_stats.start_time = Some(Now)]

Succeeded(results) == {r \in results : r.exc = "none"}

\* The round of g in progress after the players from p on, all random, have
\* played in the order of their indices.
RECURSIVE RandomMoves(_, _)
RandomMoves(g, p) ==
    IF p \notin PlayerIds(g) THEN {g}
    ELSE IF p = Last(g.rounds).judge THEN RandomMoves(g, p + 1)
    ELSE UNION {UNION {RandomMoves(r.game, p + 1) :
                          r \in Succeeded(play_card(g, p, m.card, m.thinking))} :
                   m \in Succeeded(random_player_move(g, p))}

\* g after start_round and the moves of a further round.
RoundPlayed(g) ==
    UNION {RandomMoves(r.game, 0) : r \in Succeeded(start_round(g))}

\* g after a further round of random players and a random judge.
RandomRound(g) ==
    UNION {UNION {{r.game : r \in Succeeded(Judged(played, move))} :
                     move \in Succeeded(random_judge_move(played, Last(played.rounds).judge))} :
              played \in RoundPlayed(g)}

RECURSIVE RandomRounds(_, _)
RandomRounds(games, k) ==
    IF k = 0 THEN games
    ELSE RandomRounds(UNION {RandomRound(g) : g \in games}, k - 1)

\* The games an earlier run of random players has saved: after it completed
\* its k rounds, 0 < k < MaxRounds, or after a KeyboardInterrupt that came in
\* the round after them, when the moves of that round had been played.
SavedGames(rg) ==
    UNION {LET closed == RandomRounds({FreshGame(rg, k)}, k)
           IN  closed \cup
               UNION {{PopUndecided(played) : played \in RoundPlayed(g)} : g \in closed}
           : k \in 1..(MaxRounds - 1)}

\* --load-game: the saved games, read again from their files.
LoadedGames(rg) == {load_game(save_game(g)) : g \in SavedGames(rg)}

NewDriver(pc, num_rounds, num_players, models, g) ==
    [pc |-> pc, num_rounds |-> num_rounds, num_players |-> num_players,
     models |-> models, pending |-> {},
     results |-> [p \in DOMAIN g.players |-> None],
     judge_cards |-> None, exc |-> "none", snapshot |-> None,
     closed |-> g, interrupt |-> "none", saves |-> 0]

\* run_game is called without load_game_path: the game is new and the try
\* block is next.
RunFresh ==
    \E rg \in RunGames, num_rounds \in 1..(MaxRounds + 1) :
      \E models \in [0..(rg.players - 1) -> {"random", "model"}] :
        /\ game = FreshGame(rg, num_rounds)
        /\ config = [cards_per_hand |-> rg.cards_per_hand,
                     red_cards |-> RunRedFile(rg), green_cards |-> RunGreenFile,
                     load_game |-> None]
        /\ driver = NewDriver("while", num_rounds, rg.players, models, game)

\* run_game is called with load_game_path: the game is loaded, for as many
\* players as it has or for one more.
RunLoad ==
    \E rg \in RunGames, num_rounds \in 1..(MaxRounds + 1) :
      \E loaded \in LoadedGames(rg), num_players \in rg.players..(rg.players + 1) :
        \E models \in [0..(num_players - 1) -> {"random", "model"}] :
          /\ num_players # rg.players => \A p \in DOMAIN models : models[p] = "random"
          /\ game = loaded
          /\ config = [cards_per_hand |-> rg.cards_per_hand,
                       red_cards |-> RunRedFile(rg), green_cards |-> RunGreenFile,
                       load_game |-> Some(loaded)]
          /\ driver = NewDriver("loaded", num_rounds, num_players, models, game)

RunInit ==
    /\ RunFresh \/ RunLoad
    /\ last = [op |-> "new_game", exc |-> "none", msg |-> "none", missing |-> {}]
    /\ call = NoCall

\* Mutant: the loaded game keeps the number of rounds it was saved with.
WithTotalRounds_kept(g, num_rounds) == g

\* game.total_rounds = num_rounds
WithTotalRounds(g, num_rounds) == [g EXCEPT !.total_rounds = num_rounds]

\* The game is loaded: one with another number of players than requested is
\* refused with a ValueError, which run_game raises before its try block;
\* otherwise total_rounds becomes the number of rounds requested.
RunLoaded ==
    /\ driver.pc = "loaded"
    /\ IF NumPlayers(game) # driver.num_players
       THEN /\ driver' = [driver EXCEPT !.pc = "raised", !.exc = "ValueError"]
            /\ game' = game
       ELSE /\ driver' = [driver EXCEPT !.pc = "while",
                             !.closed = WithTotalRounds(game, driver.num_rounds)]
            /\ game' = WithTotalRounds(game, driver.num_rounds)
    /\ UNCHANGED <<last, config, call>>

\* The try block is left, by its end or by an exception: the finally clause
\* is next, and the variables of the round are not used again.
Leaving(exc) ==
    [driver EXCEPT !.pc = "finally", !.exc = exc, !.pending = {},
                   !.results = [p \in DOMAIN @ |-> None], !.judge_cards = None]

\* Mutant: the exception is swallowed and the loop goes on.
FailingContinues(exc) ==
    [driver EXCEPT !.pc = "while", !.pending = {},
                   !.results = [p \in DOMAIN @ |-> None], !.judge_cards = None]

\* An exception raised in the try block that is no KeyboardInterrupt: no
\* except clause takes it, the finally clause is next.
Failing(exc) == Leaving(exc)

\* Mutant: the loop stops one round short of the target.
RoundsLeft_one_short(g, num_rounds) == Len(g.rounds) + 1 < num_rounds

\* while len(game.rounds) < num_rounds
RoundsLeft(g, num_rounds) == Len(g.rounds) < num_rounds

\* The body of the loop begins: round = game.start_round(), and the tasks of
\* the players are created and handed to asyncio.gather.
RunStartRound ==
    /\ driver.pc = "while"
    /\ RoundsLeft(game, driver.num_rounds)
    /\ \E r \in start_round(game) :
          /\ game' = r.game
          /\ last' = Call("start_round", r)
          /\ driver' = IF r.exc # "none" THEN Failing(r.exc)
                       ELSE [driver EXCEPT
                               !.pc = "gather",
                               !.pending = PlayerIds(game) \ {Last(r.game.rounds).judge},
                               !.results = [p \in PlayerIds(game) |-> None],
                               !.judge_cards = None]
    /\ UNCHANGED <<config, call>>

\* The while loop ends: the target number of rounds is reached.
RunRoundsDone ==
    /\ driver.pc = "while"
    /\ ~RoundsLeft(game, driver.num_rounds)
    /\ driver' = Leaving("none")
    /\ UNCHANGED <<game, last, config, call>>

\* Mutant: the requests are awaited one after the other, in the order of
\* the players.
ReadyInOrder(d) == {p \in d.pending : \A q \in d.pending : p <= q}

\* The tasks asyncio.gather runs at a time: every task that has not returned.
Ready(d) == d.pending

\* What the end of the task of player p makes of the locals of run_game:
\* the result is kept for the gather, or an exception leaves the try block.
TaskOutcomes(p) ==
    UNION {{IF r.exc # "none" THEN Failing(r.exc)
            ELSE [driver EXCEPT !.pending = @ \ {p}, !.results[p] = Some(r)]
            : r \in (IF driver.models[p] = "random" THEN random_player_move(game, p)
                     ELSE model_player_move(game, p, reply))}
           : reply \in RunReplies(game.players[p].hand)}

\* process_player_move of one player comes to its end: a random player chooses
\* at once, a model player when call_model has returned or raised.
TaskDone ==
    /\ driver.pc = "gather"
    /\ \E p \in Ready(driver) : driver' \in TaskOutcomes(p)
    /\ UNCHANGED <<game, last, config, call>>

\* Mutant: the results are processed while tasks are still running.
GatheredEarly(d) == TRUE

\* results = await asyncio.gather(*tasks): every task has returned.
Gathered(d) == d.pending = {}

\* if log_path and player_idx in game.rounds[-1].moves: the move gets the log.
WithLogPath(g, player_idx, log_path) ==
    LET k == Len(g.rounds)
        at == {i \in DOMAIN g.rounds[k].moves : g.rounds[k].moves[i].player = player_idx}
    IN  IF log_path = None \/ at = {} THEN g
        ELSE [g EXCEPT !.rounds[k].moves[CHOOSE i \in at : TRUE].log_path = Get(log_path)]

\* The results of the gather that are still to be played.
ToApply(d) == {p \in DOMAIN d.results : d.results[p] # None}

\* Mutant: the results are processed from the last player to the first.
NextToApplyLast(d) == CHOOSE q \in ToApply(d) : \A o \in ToApply(d) : q >= o

\* for result in results: gather returns the results in the order of the
\* tasks, which is the order of the players.
NextToApply(d) == CHOOSE q \in ToApply(d) : \A o \in ToApply(d) : q <= o

\* One turn of the loop over the results: the next result, in the order of
\* the players, is played with play_card.
ApplyMove ==
    /\ driver.pc = "gather"
    /\ Gathered(driver)
    /\ LET waiting == ToApply(driver)
       IN  /\ waiting # {}
           /\ LET p == NextToApply(driver)
                  result == Get(driver.results[p])
              IN  \E r \in play_card(game, p, result.card, result.thinking) :
                    /\ game' = IF r.exc # "none" THEN r.game
                               ELSE WithLogPath(r.game, p, result.log_path)
                    /\ last' = Call("play_card", r)
                    /\ driver' = IF r.exc # "none" THEN Failing(r.exc)
                                 ELSE [driver EXCEPT !.results[p] = None]
    /\ UNCHANGED <<config, call>>

\* The results are all processed.
MovesApplied(d) ==
    /\ d.pc = "gather"
    /\ Gathered(d)
    /\ \A p \in DOMAIN d.results : d.results[p] = None

\* The judge is random: a move of the round is chosen and the round judged.
JudgeRandom ==
    /\ MovesApplied(driver)
    /\ driver.models[Last(game.rounds).judge] = "random"
    /\ \E move \in random_judge_move(game, Last(game.rounds).judge) :
         \E r \in Judged(game, move) :
            /\ game' = r.game
            /\ last' = Call("judge_round", r)
            /\ driver' = IF r.exc # "none" THEN Failing(r.exc)
                         ELSE [driver EXCEPT !.pc = "while", !.closed = r.game]
    /\ UNCHANGED <<config, call>>

\* The judge is a model: model_judge_move is called with the played cards of
\* the round and waits for call_model.
JudgeAsk ==
    /\ MovesApplied(driver)
    /\ driver.models[Last(game.rounds).judge] = "model"
    /\ driver' = [driver EXCEPT !.pc = "judging",
                                !.judge_cards = Some(JudgePlayedCards(game))]
    /\ UNCHANGED <<game, last, config, call>>

\* call_model returns or raises, model_judge_move returns and the round is
\* judged.
JudgeReply ==
    /\ driver.pc = "judging"
    /\ \E reply \in RunReplies(JudgePlayedCards(game)) :
        \E move \in model_judge_move(game, reply) :
          \E r \in (IF move.exc # "none" THEN {Raise(game, move.exc, "none")}
                    ELSE Judged(game, move)) :
            /\ game' = r.game
            /\ last' = Call("judge_round", r)
            /\ driver' = IF r.exc # "none" THEN Failing(r.exc)
                         ELSE [driver EXCEPT !.pc = "while", !.closed = r.game]
    /\ UNCHANGED <<config, call>>

\* The try block is running.
InTry(d) == d.pc \in {"while", "gather", "judging"}

\* run_game is suspended in an await: in asyncio.gather with a task waiting
\* for call_model, or in model_judge_move.
InAwait(d) == (d.pc = "gather" /\ d.pending # {}) \/ d.pc = "judging"

\* KeyboardInterrupt is raised in the code of run_game.
KeyboardInterrupt ==
    /\ InTry(driver)
    /\ game' = PopUndecided(game)
    /\ driver' = [Leaving("none") EXCEPT !.interrupt = driver.pc]
    /\ UNCHANGED <<last, config, call>>

\* The interruption reaches run_game while it is suspended: asyncio cancels
\* the task and the await raises CancelledError, which no except clause of
\* run_game catches.
Cancelled ==
    /\ InAwait(driver)
    /\ driver' = [Failing("CancelledError") EXCEPT !.interrupt = driver.pc]
    /\ UNCHANGED <<game, last, config, call>>

\* game.save_game(final_state_path): the game as it is when finally begins.
SavedGame(g) == g

\* finally: the game is saved, then the end time is recorded in its
\* benchmark_stats if it has none, the report is written from it, and
\* return game drops an exception on its way out.
Finally ==
    /\ driver.pc = "finally"
    /\ driver' = [driver EXCEPT !.pc = "done", !.snapshot = Some(SavedGame(game)),
                                !.saves = @ + 1]
    /\ game' = [game EXCEPT !.benchmark_stats.end_time =
                                IF @ = None THEN Some(Now) ELSE @]
    /\ UNCHANGED <<last, config, call>>

RunNext ==
    \/ RunLoaded
    \/ RunStartRound \/ RunRoundsDone \/ TaskDone \/ ApplyMove
    \/ JudgeRandom \/ JudgeAsk \/ JudgeReply
    \/ KeyboardInterrupt \/ Cancelled \/ Finally

RunSpec == RunInit /\ [][RunNext]_vars

\* The runs in which every player is random: no model judge is asked.  The
\* event loop runs whatever is ready, so a run that can take a step takes one.
AllRandom(d) == \A p \in DOMAIN d.models : d.models[p] = "random"
RandomRunInit == RunInit /\ AllRandom(driver)
RandomRunNext ==
    \/ RunLoaded
    \/ RunStartRound \/ RunRoundsDone \/ TaskDone \/ ApplyMove
    \/ JudgeRandom
    \/ KeyboardInterrupt \/ Cancelled \/ Finally
RandomRunSpec ==
    RandomRunInit /\ [][RandomRunNext]_vars /\ WF_vars(RandomRunNext)

\* ------------------------------------------------------------ claim helpers
HasCurrent(g) == g.current_round # None /\ Get(g.current_round) < Len(g.rounds)
CurrentRound(g) == g.rounds[Get(g.current_round) + 1]
Closed(round) == round.decision # None
PlayedCards(round) == {round.moves[i].played_card : i \in DOMAIN round.moves}
Played(op) == last'.op = op
Rejected == last'.exc = "ValueError" /\ game' = game

\* The multiset of the elements of a sequence.
RECURSIVE BagOfSeq(_)
BagOfSeq(s) == IF s = <<>> THEN EmptyBag ELSE BagOfSeq(Front(s)) (+) SetToBag({Last(s)})

RECURSIVE SumBags(_, _)
SumBags(f, S) ==
    IF S = {} THEN EmptyBag
    ELSE LET x == CHOOSE y \in S : TRUE IN f[x] (+) SumBags(f, S \ {x})

\* The red cards wherever they are: both piles of the red deck and every hand.
RedCardsInPlay(g) ==
    BagOfSeq(g.red_deck.draw_pile) (+) BagOfSeq(g.red_deck.discard_pile)
    (+) SumBags([p \in PlayerIds(g) |-> BagOfSeq(g.players[p].hand)], PlayerIds(g))

MovesRecorded(g) ==
    LET RECURSIVE Count(_)
        Count(k) == IF k = 0 THEN 0 ELSE Len(g.rounds[k].moves) + Count(k - 1)
    IN  Count(Len(g.rounds))

\* ------------------------------------------------------------------ claims
\* C1: hand-size invariant.  After new_game(cards_per_hand = N) and any
\* sequence of start_round, play_card and judge_round calls, successful or
\* failing, every player's hand holds exactly N cards.
C1_HandSize ==
    \A p \in PlayerIds(game) :
        Len(game.players[p].hand) = config.cards_per_hand

\* A play_card has replaced a card of a two-card hand.
C1_Witness ==
    /\ last.op = "play_card" /\ last.exc = "none"
    /\ config.cards_per_hand = 2

\* C2: response-card conservation.  Each card of the red deck's initial
\* population is, with its multiplicity, in exactly one place among the red
\* draw pile, the red discard pile and the players' hands, also after the
\* discard pile has been reshuffled into the draw pile.
C2_Conservation == RedCardsInPlay(game) = BagOfSeq(config.red_cards)

\* The third card played made the deck reshuffle two discarded cards: one was
\* drawn, one is left to draw, and the discard pile holds the card just played.
C2_Witness ==
    /\ last.op = "play_card" /\ last.exc = "none"
    /\ MovesRecorded(game) = 3
    /\ Len(game.red_deck.draw_pile) = 1
    /\ Len(game.red_deck.discard_pile) = 1

\* C3: round legality.  In every round that has a decision, the players with
\* a move are exactly the players other than the judge, and the winning card
\* is the played card of a move of that round.
C3_RoundLegality ==
    \A k \in DOMAIN game.rounds :
        Closed(game.rounds[k]) =>
            /\ DictKeys(game.rounds[k].moves) = PlayerIds(game) \ {game.rounds[k].judge}
            /\ Get(game.rounds[k].decision).winning_card \in PlayedCards(game.rounds[k])

\* A round of a three-player game is closed and a later round is under way.
C3_Witness ==
    /\ NumPlayers(game) = 3
    /\ Len(game.rounds) = 2
    /\ Closed(game.rounds[1])
    /\ game.rounds[2].moves # <<>>

\* C4: judge rotation.  Every round has the round_number of its position in
\* rounds and the judge round_number mod player_count, and its judge has no
\* move in it.
C4_JudgeRotation ==
    \A k \in DOMAIN game.rounds :
        /\ game.rounds[k].round_number = k - 1
        /\ game.rounds[k].judge = (k - 1) % NumPlayers(game)
        /\ game.rounds[k].judge \notin DictKeys(game.rounds[k].moves)

\* The rotation of a two-player game has come round to player 0 again, after
\* rounds in which cards were played.
C4_Witness ==
    /\ NumPlayers(game) = 2
    /\ Len(game.rounds) = 3
    /\ game.rounds[3].judge = 0
    /\ game.rounds[2].moves # <<>>
    /\ game.rounds[3].moves # <<>>

FirstToPlay(moves, card) ==
    moves[CHOOSE i \in DOMAIN moves :
             /\ moves[i].played_card = card
             /\ \A j \in 1..(i - 1) : moves[j].played_card # card]

\* C7: a successful judge_round makes winning_player the first player, in the
\* insertion order of moves, whose played card is the winning card, attaches
\* the decision to the current round and appends the current round number to
\* that player's won_rounds and to nobody else's; a winning card that no move
\* played makes it raise ValueError and leaves the round as it was.
C7_JudgeRound ==
    [][Played("judge_round") =>
        /\ last'.exc = "none" =>
            /\ HasCurrent(game)
            /\ LET k == Get(game.current_round) + 1
                   before == game.rounds[k]
                   decision == Get(game'.rounds[k].decision)
                   winner == decision.winning_player
               IN  /\ Closed(game'.rounds[k])
                   /\ decision.winning_card \in PlayedCards(before)
                   /\ winner = FirstToPlay(before.moves, decision.winning_card).player
                   /\ game'.rounds = [game.rounds EXCEPT ![k].decision = Some(decision)]
                   /\ game'.players = [game.players EXCEPT
                                          ![winner].won_rounds = Append(@, k - 1)]
                   /\ game'.red_deck = game.red_deck
                   /\ game'.green_deck = game.green_deck
                   /\ game'.current_round = game.current_round
        /\ last'.msg = "was not played this round" => Rejected
      ]_vars

\* Two players had played cards of the same name, the judge chose that name
\* and the round went to one of them.
C7_Witness ==
    /\ last.op = "judge_round" /\ last.exc = "none"
    /\ LET round == CurrentRound(game)
       IN  \E i, j \in DOMAIN round.moves :
              /\ i < j
              /\ round.moves[i].played_card = round.moves[j].played_card
              /\ Get(round.decision).winning_card = round.moves[i].played_card

\* C8 as stated: start_round appends no round while the current round has no
\* decision, so that every round but the last has a decision.
C8_OneOpenRound ==
    \A k \in 1..(Len(game.rounds) - 1) : Closed(game.rounds[k])

\* C8 as amended: start_round does not look at the current round.  Whenever
\* the green deck has a card left it appends a round and makes it the current
\* one, also when the round before has no decision; the rounds before the
\* current one are never changed again.
C8_StartRoundAppends ==
    [][/\ (Played("start_round") /\ ~DeckEmpty(game.green_deck)) =>
            /\ last'.exc = "none"
            /\ Len(game'.rounds) = Len(game.rounds) + 1
            /\ SubSeq(game'.rounds, 1, Len(game.rounds)) = game.rounds
            /\ Last(game'.rounds).decision = None
            /\ game'.current_round = Some(Len(game.rounds))
       /\ \A k \in 1..(Len(game.rounds) - 1) : game'.rounds[k] = game.rounds[k]
      ]_vars

\* A round was started while the round before it had a move and no decision.
C8_Witness ==
    /\ last.op = "start_round" /\ last.exc = "none"
    /\ Len(game.rounds) >= 2
    /\ game.rounds[Len(game.rounds) - 1].moves # <<>>
    /\ ~Closed(game.rounds[Len(game.rounds) - 1])

\* C9 as stated: judge_round on a current round that already has a decision
\* raises ValueError and changes nothing, so that a decision is never replaced
\* and a round number is appended to won_rounds once.
C9_ClosedRoundImmutable ==
    [][(Played("judge_round") /\ HasCurrent(game) /\ Closed(CurrentRound(game)))
        => Rejected]_vars

\* C10: once the current round has a decision, every play_card, for any player
\* of the game, raises ValueError and changes nothing, until start_round is
\* called again.
C10_NoMoveAfterDecision ==
    [][(Played("play_card") /\ HasCurrent(game) /\ Closed(CurrentRound(game)))
        => Rejected]_vars

\* A card was offered after the decision of the round, and refused.
C10_Witness ==
    /\ last.op = "play_card" /\ last.exc = "ValueError"
    /\ HasCurrent(game) /\ Closed(CurrentRound(game))

\* The messages of the four legality checks of play_card.
LegalityMessages ==
    {"No active round", "is the judge and cannot play a card",
     "has already played a card this round", "is not in hand"}

\* C11: a play_card that passes its legality checks while the red deck has no
\* card to draw (draw pile and discard pile both empty) raises the
\* deck-exhausted ValueError and applies nothing: every hand, both piles of
\* both decks and the moves of every round are as before the call.  The
\* deck-exhausted error is raised in no other case.
C11_DeckExhausted ==
    [][Played("play_card") =>
        /\ (DeckEmpty(game.red_deck) /\ last'.msg \notin LegalityMessages) =>
              /\ last'.exc = "ValueError"
              /\ last'.msg = "No more red cards in deck"
              /\ game'.players = game.players
              /\ game'.red_deck = game.red_deck
              /\ game'.rounds = game.rounds
              /\ game' = game
        /\ last'.msg = "No more red cards in deck" =>
              /\ DeckEmpty(game.red_deck)
              /\ HasCurrent(game)
              /\ game' = game
      ]_vars

\* A card of the hand was offered by a player who may play, in a game whose
\* hands took every line of red_cards.txt, and was refused for want of a card
\* to draw.
C11_Witness ==
    /\ last.op = "play_card"
    /\ last.msg = "No more red cards in deck"
    /\ HasCurrent(game)
    /\ DeckEmpty(game.red_deck)
    /\ CurrentRound(game).moves = <<>>

\* The text json.loads is given: the content without the lines of the code
\* block marks, if it starts with one, and without surrounding white space.
JsonText(content) ==
    StripTokens(IF StartsWithFence(content) THEN DropFenceLines(content)
                ELSE JoinLines(content))

\* The text is JSON, its value is one object, and the object has both keys.
WellFormed(content) ==
    LET loaded == JsonLoads(JsonText(content))
    IN  /\ loaded.ok
        /\ loaded.val.type = "object"
        /\ HasKey(loaded.val, ReasoningKey)
        /\ HasKey(loaded.val, CardKey)

\* C18 as stated: parse_model_response raises ValueError on every response
\* that is not JSON, whose value is not one object, or that lacks the key
\* reasoning or the key card, and returns the two values on every other
\* response, without their surrounding white space.
C18_ParseOrValueError ==
    (call.fn = "parse_model_response" /\ call.pc = "returned") =>
        LET result == Get(call.result)
        IN  IF WellFormed(call.content)
            THEN /\ result.exc = "none"
                 /\ \A i \in DOMAIN result.card : i \in {1, Len(result.card)} =>
                        ~IsSpace(result.card[i])
                 /\ \A i \in DOMAIN result.thinking :
                        i \in {1, Len(result.thinking)} => ~IsSpace(result.thinking[i])
            ELSE result.exc = "ValueError"

\* ------------------------------------------- claims on the move orchestrator
Returned == call.fn = "handle_model_interaction" /\ call.pc = "returned"
Awaiting == call.fn = "handle_model_interaction" /\ call.pc = "awaiting"

\* What handle_model_interaction can come to on the reply it is waiting for.
Outcomes ==
    IF call.role = "player"
    THEN model_player_move(game, call.player, call.agent[call.calls])
    ELSE model_judge_move(game, call.agent[call.calls])

ContainsLit(thinking, text) ==
    \E i \in DOMAIN thinking : thinking[i].kind = "lit" /\ thinking[i].lit = text
ContainsRaw(thinking, content) ==
    \E i \in DOMAIN thinking : thinking[i].kind = "content" /\ thinking[i].raw = content
ContainsAttempts(thinking, n) ==
    \E i \in DOMAIN thinking : thinking[i].kind = "attempts" /\ thinking[i].lit = n
ContainsError(thinking, exc) ==
    \E i \in DOMAIN thinking : thinking[i].kind = "error" /\ thinking[i].err.exc = exc

\* The thinking is the reasoning of the response and nothing else.
IsReasoning(thinking, reasoning) ==
    Len(thinking) = 1 /\ thinking[1].kind = "str" /\ thinking[1].str = reasoning

\* Two names have the same letters in the same order, whatever their case
\* and whatever stands between the letters.
SameLetters(x, y) ==
    LET lx == SelectSeq(x, IsAlpha)
        ly == SelectSeq(y, IsAlpha)
    IN  /\ Len(lx) = Len(ly)
        /\ \A i \in DOMAIN lx : Lower(lx[i]) = Lower(ly[i])

\* The reply is a response whose content parses.
Parses(reply) == ~reply.raised /\ parse_model_response(reply.content).exc = "none"

\* The reply is a response that parses and chooses a legal card.
ValidAnswer(reply, valid_cards) ==
    /\ Parses(reply)
    /\ \E i \in DOMAIN valid_cards :
          SameLetters(valid_cards[i], parse_model_response(reply.content).card)

\* C13: fallback guarantee.  With an agent whose every response is malformed
\* and legal cards to choose from, handle_model_interaction calls the agent at
\* most MaxAttempts times, comes to an end, and returns a card of the legal
\* cards with a thinking that contains "Random selection".
C13_FallbackGuarantee ==
    (call.fn = "handle_model_interaction"
     /\ \A k \in DOMAIN call.agent : ~call.agent[k].raised /\ ~Parses(call.agent[k]))
    =>
    /\ call.calls <= MaxAttempts
    /\ Awaiting => Outcomes # {}
    /\ Returned =>
          /\ Get(call.result).exc = "none"
          /\ Get(call.result).card \in Range(call.valid_cards)
          /\ ContainsLit(Get(call.result).thinking, "Random selection")

\* A player with two cards in hand was given the second one after responses
\* that are no JSON.
C13_Witness ==
    /\ Returned
    /\ call.role = "player"
    /\ \A k \in DOMAIN call.agent : call.agent[k] = Response(Malformed, LogNames[k])
    /\ Len(call.valid_cards) = 2
    /\ Get(call.result).card = call.valid_cards[2]

\* C14 as stated: a response that fails validation while attempts remain is
\* followed by a corrective message and another call, up to MaxAttempts
\* calls: an agent whose k-th response is its first valid one is called k
\* times and its choice is returned, and an agent with MaxAttempts invalid
\* responses is called MaxAttempts times and sent MaxAttempts - 1 corrective
\* messages before the fallback.
C14_RetryUpToThree ==
    (Returned /\ \A k \in DOMAIN call.agent : ~call.agent[k].raised) =>
        LET valid == {k \in 1..MaxAttempts : ValidAnswer(call.agent[k], call.valid_cards)}
        IN  IF valid # {}
            THEN LET first == CHOOSE k \in valid : \A j \in valid : k <= j
                 IN  /\ call.calls = first
                     /\ Get(call.result).log_path = call.agent[first].log_path
            ELSE /\ call.calls = MaxAttempts
                 /\ Len(call.messages) = 1 + (MaxAttempts - 1)
                 /\ ContainsLit(Get(call.result).thinking, "Random selection")

\* C15 as stated: the thinking returned with a fallback made after a response
\* that could not be used contains "Random selection", the number of attempts
\* made and the content of the last response.
C15_FallbackRationale ==
    (/\ Returned
     /\ ~call.agent[call.calls].raised
     /\ ~ValidAnswer(call.agent[call.calls], call.valid_cards))
    =>
    /\ ContainsLit(Get(call.result).thinking, "Random selection")
    /\ ContainsRaw(Get(call.result).thinking, call.agent[call.calls].content)
    /\ ContainsAttempts(Get(call.result).thinking, call.calls)

\* C16: the log path returned is that of the last response received: of the
\* response itself when its choice is returned, of the response that failed
\* validation when the fallback is returned, and None only when call_model
\* raised and there is no response.
C16_Provenance ==
    Returned =>
        LET received == {k \in 1..call.calls : ~call.agent[k].raised}
            result == Get(call.result)
        IN  /\ result.exc = "none"
            /\ IF received = {} THEN result.log_path = None
               ELSE LET latest == CHOOSE k \in received : \A j \in received : k >= j
                    IN  /\ result.log_path = call.agent[latest].log_path
                        /\ result.log_path # None

\* The fallback made for a judge after a response that chose a card nobody
\* played came back with the log of that response.
C16_Witness ==
    /\ Returned
    /\ call.role = "judge"
    /\ Parses(call.agent[1])
    /\ ~ValidAnswer(call.agent[1], call.valid_cards)
    /\ ContainsLit(Get(call.result).thinking, "Random selection")
    /\ Get(call.result).log_path = Some(LogNames[1])

\* C17: validator matching.  The card a response chooses is accepted exactly
\* when a legal card has the same letters, whatever the case and whatever
\* stands between the letters; the card returned is then the first such legal
\* card in the order of the list, as the list spells it, with the reasoning of
\* the response; when no legal card matches, the choice is refused as not in
\* the valid cards and the fallback is returned.
C17_ValidatorMatching ==
    (Returned /\ Parses(call.agent[call.calls])) =>
        LET parsed == parse_model_response(call.agent[call.calls].content)
            hits == {i \in DOMAIN call.valid_cards :
                        SameLetters(call.valid_cards[i], parsed.card)}
            result == Get(call.result)
        IN  IF hits # {}
            THEN /\ result.exc = "none"
                 /\ result.card =
                       call.valid_cards[CHOOSE i \in hits : \A j \in hits : i <= j]
                 /\ IsReasoning(result.thinking, parsed.thinking)
            ELSE /\ ContainsError(result.thinking, "ValueError")
                 /\ ContainsLit(result.thinking, "Random selection")
                 /\ ~IsReasoning(result.thinking, parsed.thinking)

\* Two legal cards have the letters of the chosen card, neither is spelled as
\* the response spells it, and the one listed first was returned.
C17_Witness ==
    /\ Returned
    /\ Parses(call.agent[1])
    /\ Len(call.valid_cards) = 2
    /\ \A i \in 1..2 :
          /\ SameLetters(call.valid_cards[i],
                         parse_model_response(call.agent[1].content).card)
          /\ call.valid_cards[i] # parse_model_response(call.agent[1].content).card
    /\ call.valid_cards[1] # call.valid_cards[2]
    /\ Get(call.result).card = call.valid_cards[1]

\* C19: whatever the agent does (call_model raises, the response is no JSON,
\* a value is no str, the card is not legal), handle_model_interaction called
\* with legal cards raises nothing: it returns a card of the legal cards, a
\* thinking and a log path.
C19_NoEscape ==
    /\ Awaiting => Outcomes # {}
    /\ Returned =>
          /\ Get(call.result).exc = "none"
          /\ Get(call.result).card \in Range(call.valid_cards)
          /\ Get(call.result).thinking # <<>>

\* Moves were returned after call_model raised, and after a response with
\* null for its card made str.strip fail.
C19_Witness ==
    /\ Returned
    /\ Get(call.result).exc = "none"
    /\ \/ call.agent[1].raised
       \/ ContainsError(Get(call.result).thinking, "AttributeError")

\* ------------------------------------------------------ claims on run_game
\* The judge of the round is asked: model_judge_move begins, or a random
\* judge has decided in this step.
ModelJudgeAsked == driver.pc # "judging" /\ driver'.pc = "judging"
DecidedNow ==
    /\ game.rounds # <<>>
    /\ Len(game'.rounds) = Len(game.rounds)
    /\ Last(game.rounds).decision = None
    /\ Last(game'.rounds).decision # None
NonJudges(g) == PlayerIds(g) \ {Last(g.rounds).judge}

\* C12: in run_game the judge is asked only when the request of every
\* non-judge player of the round has returned and its card has been played
\* with play_card; the cards a model judge may choose from are exactly the
\* cards played in the round, one for each non-judge player; a round gets its
\* decision in one step, a decided round is never changed afterwards, and no
\* round is started while an earlier one is undecided.
C12_JudgeAfterMoves ==
    [][ /\ (ModelJudgeAsked \/ DecidedNow) =>
              /\ driver.pending = {}
              /\ \A p \in DOMAIN driver.results : driver.results[p] = None
              /\ DictKeys(Last(game.rounds).moves) = NonJudges(game)
              /\ Len(Last(game.rounds).moves) = Cardinality(NonJudges(game))
        /\ ModelJudgeAsked =>
              /\ driver'.judge_cards # None
              /\ Len(Get(driver'.judge_cards)) = Cardinality(NonJudges(game))
              /\ Range(Get(driver'.judge_cards)) = PlayedCards(Last(game.rounds))
        /\ DecidedNow =>
              /\ Get(Last(game'.rounds).decision).winning_card
                    \in PlayedCards(Last(game.rounds))
              /\ Last(game'.rounds).moves = Last(game.rounds).moves
        /\ \A i \in DOMAIN game.rounds :
              game.rounds[i].decision # None =>
                  i \in DOMAIN game'.rounds /\ game'.rounds[i] = game.rounds[i]
        /\ Len(game'.rounds) > Len(game.rounds) =>
              \A i \in DOMAIN game.rounds : game.rounds[i].decision # None
      ]_vars

\* Three players, the second round, judged by a model after the two others
\* have played.
C12_Witness ==
    /\ driver.pc = "while"
    /\ Cardinality(PlayerIds(game)) = 3
    /\ Len(game.rounds) = 2
    /\ Last(game.rounds).decision # None
    /\ driver.models[Last(game.rounds).judge] = "model"
    /\ Len(Last(game.rounds).moves) = 2

\* C20: the snapshot that run_game saves has no round without a decision.
C20_SnapshotDecided ==
    driver.snapshot # None =>
        \A k \in DOMAIN Get(driver.snapshot).rounds :
            Get(driver.snapshot).rounds[k].decision # None

\* The run was interrupted while a round was in progress: after start_round
\* and before the judge's decision was recorded.
InterruptedInRound(d) == d.interrupt \in {"gather", "judging"}

\* C21: the game saved after an interruption in a round has the hands, the
\* won rounds, the piles of both decks and the rounds that the game had when
\* the last round was closed.
C21_InterruptRestores ==
    (driver.snapshot # None /\ InterruptedInRound(driver)) =>
        /\ Get(driver.snapshot).players = driver.closed.players
        /\ Get(driver.snapshot).red_deck = driver.closed.red_deck
        /\ Get(driver.snapshot).green_deck = driver.closed.green_deck
        /\ Get(driver.snapshot).rounds = driver.closed.rounds

\* C22: a run that has ended has saved the game once, and the game saved is
\* the game as the run leaves it.
C22_SavedOnceAfterLast ==
    driver.pc = "done" =>
        /\ driver.saves = 1
        /\ driver.snapshot = Some(game)

\* A draw has failed on an exhausted deck in the latest call on the game.
DeckExhausted ==
    last.msg \in {"No more green cards in deck", "No more red cards in deck"}

\* C23: once start_round or play_card has failed on an exhausted deck,
\* run_game is in its finally clause or has ended, and from then on no call
\* on the game is made: no call is recorded and rounds, players and decks
\* stay as they are.
C23_StopsAfterExhaustion ==
    [][ DeckExhausted =>
            /\ driver.pc \in {"finally", "done"}
            /\ driver'.pc \in {"finally", "done"}
            /\ driver.exc = "ValueError"
            /\ last' = last
            /\ game'.rounds = game.rounds
            /\ game'.players = game.players
            /\ game'.red_deck = game.red_deck
            /\ game'.green_deck = game.green_deck
      ]_vars

\* A run has ended after start_round found no topic card for the round
\* after the last of the file.
C23_Witness ==
    /\ driver.pc = "done"
    /\ last.op = "start_round"
    /\ last.msg = "No more green cards in deck"
    /\ Len(game.rounds) = MaxRounds

FreshRandomRun ==
    /\ config.load_game = None
    /\ AllRandom(driver)
    /\ Len(config.green_cards) >= driver.num_rounds
    /\ Len(config.red_cards) > NumPlayers(game) * config.cards_per_hand

\* The rounds from number k on are closed and judged in rotation.
RotationFrom(g, k) ==
    \A i \in (k + 1)..Len(g.rounds) :
        /\ g.rounds[i].decision # None
        /\ g.rounds[i].round_number = i - 1
        /\ g.rounds[i].judge = (i - 1) % NumPlayers(g)

\* C25: a run of random players on a new game with decks large enough comes
\* to its end, and when nothing interrupted it, it ends without an error
\* with as many rounds as were asked for, all of them closed, the judge of
\* round n being player n mod the number of players, and with one won round
\* recorded for each round.
C25_RandomRunCompletes ==
    /\ FreshRandomRun ~> (driver.pc = "done")
    /\ [](  (FreshRandomRun /\ driver.pc = "done" /\ driver.interrupt = "none") =>
               /\ driver.exc = "none"
               /\ Len(game.rounds) = driver.num_rounds
               /\ RotationFrom(game, 0)
               /\ TotalWins(game) = driver.num_rounds )

\* Three random players have completed a run of MaxRounds rounds.
C25_Witness ==
    /\ FreshRandomRun
    /\ driver.pc = "done"
    /\ driver.interrupt = "none"
    /\ NumPlayers(game) = 3
    /\ driver.num_rounds = MaxRounds
    /\ Len(game.rounds) = MaxRounds

\* The game a run was started from with load_game_path.
Loaded == Get(config.load_game)

\* A run on a loaded game of k closed rounds, for its number of players and
\* for R >= k rounds, with the topic cards for the R - k further rounds and a
\* red deck that is not empty.
ResumedRun ==
    /\ config.load_game # None
    /\ NumPlayers(Loaded) = driver.num_players
    /\ \A i \in DOMAIN Loaded.rounds : Loaded.rounds[i].decision # None
    /\ driver.num_rounds >= Len(Loaded.rounds)
    /\ Len(Loaded.green_deck.draw_pile) >= driver.num_rounds - Len(Loaded.rounds)
    /\ ~DeckEmpty(Loaded.red_deck)

C27_CurrentIsLast ==
    \/ game.current_round = None
    \/ game.rounds # <<>> /\ Get(game.current_round) = Len(game.rounds) - 1

\* C27, amended: current_round is set; it is the index of the last round, or
\* it is len(rounds), the index of the round to come, and then no round is
\* in progress: that is the game after new_game, which sets it to 0 before
\* any round, and the game after an interrupted round has been removed from
\* rounds, which leaves current_round as start_round had set it.
C27_CurrentIsLastOrNext ==
    /\ game.current_round # None
    /\ \/ game.rounds # <<>> /\ Get(game.current_round) = Len(game.rounds) - 1
       \/ /\ Get(game.current_round) = Len(game.rounds)
          /\ \A i \in DOMAIN game.rounds : game.rounds[i].decision # None
          /\ game.rounds = <<>> \/ InterruptedInRound(driver)
                \/ (config.load_game # None /\ game.rounds = Loaded.rounds)

\* The second round was interrupted and removed: current_round is 1 and
\* rounds holds the first round only.
C27_Witness ==
    /\ InterruptedInRound(driver)
    /\ driver.exc = "none"
    /\ Len(game.rounds) = 1
    /\ game.current_round = Some(1)

\* ---------------------------------------------- claims on pairs of play_card
\* The games play_card(p1, c1) followed by play_card(p2, c2) can leave.
PlayBoth(g, p1, c1, p2, c2) ==
    UNION {{second.game : second \in play_card(first.game, p2, c2, "text")} :
              first \in play_card(g, p1, c1, "text")}

\* The players who are not the judge of the current round and have not
\* played in it.
FreeToPlay(g) ==
    IF ~HasCurrent(g) THEN {}
    ELSE (PlayerIds(g) \ {CurrentRound(g).judge}) \ DictKeys(CurrentRound(g).moves)

\* A move without the card drawn for it.
MovePlayed(move) ==
    [player |-> move.player, played_card |-> move.played_card,
     thinking |-> move.thinking, log_path |-> move.log_path,
     raw_response |-> move.raw_response]
PlayedMoves(round) == {MovePlayed(round.moves[i]) : i \in DOMAIN round.moves}

\* C28 as stated: two play_card calls of different players of a round leave
\* the same game in either order.
C28_PlayCardsCommute ==
    \A p1 \in FreeToPlay(game), p2 \in FreeToPlay(game) :
        p1 # p2 =>
            \A c1 \in Range(game.players[p1].hand), c2 \in Range(game.players[p2].hand) :
                PlayBoth(game, p1, c1, p2, c2) = PlayBoth(game, p2, c2, p1, c1)

\* C28, amended: the two orders agree on everything but the cards drawn and
\* the order of what is recorded.  Both leave the same moves up to the card
\* drawn, the same hands up to the replacement card at the end of the hands
\* of the two players, the same red cards in play and everything else of the
\* game as it was.  The replacement cards are drawn in the order of the
\* calls: with two cards on the draw pile the card one player draws in one
\* order is the card the other draws in the other order, and the discard
\* pile ends with the two played cards in the order of the calls.  On an
\* empty red deck both calls fail in either order and the game is unchanged.
C28_CommuteUpToDraws ==
    \A p1 \in FreeToPlay(game), p2 \in FreeToPlay(game) :
        p1 # p2 =>
            \A c1 \in Range(game.players[p1].hand), c2 \in Range(game.players[p2].hand) :
              \A a \in PlayBoth(game, p1, c1, p2, c2), b \in PlayBoth(game, p2, c2, p1, c1) :
                IF DeckEmpty(game.red_deck) THEN a = game /\ b = game
                ELSE
                  /\ PlayedMoves(CurrentRound(a)) = PlayedMoves(CurrentRound(b))
                  /\ Len(CurrentRound(a).moves) = Len(CurrentRound(game).moves) + 2
                  /\ Len(CurrentRound(b).moves) = Len(CurrentRound(game).moves) + 2
                  /\ Last(CurrentRound(a).moves).player = p2
                  /\ Last(CurrentRound(b).moves).player = p1
                  /\ \A p \in PlayerIds(game) \ {p1, p2} :
                        a.players[p] = game.players[p] /\ b.players[p] = game.players[p]
                  /\ \A p \in {p1, p2} :
                        /\ Front(a.players[p].hand) = Front(b.players[p].hand)
                        /\ a.players[p].won_rounds = b.players[p].won_rounds
                  /\ RedCardsInPlay(a) = RedCardsInPlay(b)
                  /\ a.green_deck = b.green_deck
                  /\ a.current_round = b.current_round
                  /\ Len(game.red_deck.draw_pile) >= 2 =>
                        /\ Last(a.players[p1].hand) = Last(b.players[p2].hand)
                        /\ Last(a.players[p2].hand) = Last(b.players[p1].hand)
                        /\ a.red_deck.draw_pile = b.red_deck.draw_pile
                        /\ a.red_deck.discard_pile =
                              game.red_deck.discard_pile \o <<c1, c2>>
                        /\ b.red_deck.discard_pile =
                              game.red_deck.discard_pile \o <<c2, c1>>

\* Two players have still to play in the round and the two cards on top of
\* the draw pile differ: the two orders give them different replacements.
C28_Witness ==
    /\ Cardinality(FreeToPlay(game)) >= 2
    /\ Len(game.red_deck.draw_pile) >= 2
    /\ Last(game.red_deck.draw_pile) # Last(Front(game.red_deck.draw_pile))
    /\ \E p1 \in FreeToPlay(game), p2 \in FreeToPlay(game) :
          /\ p1 # p2
          /\ PlayBoth(game, p1, game.players[p1].hand[1], p2, game.players[p2].hand[1])
                # PlayBoth(game, p2, game.players[p2].hand[1], p1, game.players[p1].hand[1])

\* ------------------------------------------------------------- prompts.py
\* A message is a role and its content; the content is the text of the
\* program with what it formats into it: numbers, cards, lists of cards,
\* thinking and raw responses.  The fixed wording of a text is its name.
Word(text) == [kind |-> "word", v |-> text]
Number(n) == [kind |-> "number", v |-> n]
CardName(card) == [kind |-> "card", v |-> card]
Reasoning(text) == [kind |-> "reasoning", v |-> text]
RawResponse(content) == [kind |-> "raw_response", v |-> content]
CardNames(cards) == [i \in DOMAIN cards |-> CardName(cards[i])]

Message(role, content) == [role |-> role, content |-> content]
add_system(content) == Message("system", content)
add_user(content) == Message("user", content)
add_assistant(content) == Message("assistant", content)

\* format_scores with up_to_round: a line for every player in the order of
\* game.players, the wins up to that round, and (you) for the current player.
format_scores(g, current_player, up_to_round) ==
    LET RECURSIVE Lines(_)
        Lines(idx) ==
            IF idx >= NumPlayers(g) THEN <<>>
            ELSE LET won == g.players[idx].won_rounds
                     score == Cardinality({k \in DOMAIN won : won[k] <= up_to_round})
                 IN  <<Word("Player"), Number(idx + 1), Number(score)>>
                     \o (IF idx = current_player THEN <<Word("(you)")>> ELSE <<>>)
                     \o Lines(idx + 1)
    IN  Lines(0)

create_system_message(total_players, player_number, total_rounds) ==
    <<Word("system message"), Number(total_players - 1), Number(player_number),
      Number(total_rounds)>>

format_cards_list(cards) == CardNames(cards)

JUDGE_PROMPT == <<Word("JUDGE_PROMPT")>>

create_player_prompt(player_idx, green_card, hand) ==
    <<Word("You are Player"), Number(player_idx + 1), Word("The green card is"),
      CardName(green_card), Word("Your hand (red cards) contains")>>
    \o CardNames(hand) \o <<Word("player prompt template")>>

\* json.dumps of the fallback for a move without a raw response
MoveJson(move, winner) ==
    <<Word("json"), Reasoning(move.thinking), CardName(move.played_card)>>
    \o (IF winner THEN <<Word("winner")>> ELSE <<>>)
DecisionJson(decision) ==
    <<Word("json"), Reasoning(decision.reasoning), CardName(decision.winning_card)>>

\* if move.raw_response: None and the empty text are false
Truthy(raw_response) == raw_response # None /\ Get(raw_response) # ""

\* Mutant: the thinking of every move is shown.
ShowsMoveOfAll(pid, player_idx) == TRUE

\* if pid == player_idx: the own move and thinking are shown, no other.
ShowsMove(pid, player_idx) == pid = player_idx

\* What the loop over round.moves adds for one move.
MoveMessages(g, round, move, player_idx) ==
    IF ~ShowsMove(move.player, player_idx) THEN <<>>
    ELSE <<add_user(create_player_prompt(move.player, round.green_card,
                                         g.players[move.player].hand)),
           IF Truthy(move.raw_response)
           THEN add_assistant(<<RawResponse(Get(move.raw_response))>>)
           ELSE add_assistant(
                    MoveJson(move, /\ round.decision # None
                                   /\ move.played_card = Get(round.decision).winning_card))>>

RECURSIVE MovesMessages(_, _, _, _)
MovesMessages(g, round, k, player_idx) ==
    IF k = 0 THEN <<>>
    ELSE MovesMessages(g, round, k - 1, player_idx)
         \o MoveMessages(g, round, round.moves[k], player_idx)

PlayedCardsOf(round) == [i \in DOMAIN round.moves |-> round.moves[i].played_card]
PlayedCardsMessage(round) ==
    add_user(<<Word("The played red cards are")>> \o format_cards_list(PlayedCardsOf(round)))

\* The answer of the judge as the judge gave it.
JudgeAnswer(decision) ==
    IF Truthy(decision.raw_response)
    THEN add_assistant(<<RawResponse(Get(decision.raw_response))>>)
    ELSE add_assistant(DecisionJson(decision))

\* The decision of a closed round as player_idx is shown it.
DecisionMessages(round, player_idx, is_judge) ==
    LET decision == Get(round.decision)
    IN  IF round.judge = player_idx /\ is_judge
        THEN <<add_user(JUDGE_PROMPT), JudgeAnswer(decision)>>
        ELSE IF round.judge = player_idx
        THEN <<add_user(<<Word("Your previous judgement was")>>), JudgeAnswer(decision)>>
        ELSE <<add_user(<<Word("Player"), Number(round.judge + 1),
                          Word("(judge) selected"), CardName(decision.winning_card),
                          Word("as the winner")>>)>>

\* The first move with the winning card, who played it and the scores.
WinnerMessages(g, round, player_idx) ==
    LET decision == Get(round.decision)
        hits == {i \in DOMAIN round.moves :
                    round.moves[i].played_card = decision.winning_card}
    IN  IF hits = {} THEN <<>>
        ELSE LET move == round.moves[CHOOSE i \in hits : \A j \in hits : i <= j]
             IN  <<add_user((IF move.player = player_idx THEN <<Word("you")>>
                             ELSE <<Word("Player"), Number(move.player + 1)>>)
                            \o <<Word("played the"), CardName(move.played_card),
                                 Word("card, and won this round"), Word("Scores")>>
                            \o format_scores(g, player_idx, round.round_number))>>

RoundMessages(g, round, player_idx, is_judge) ==
    <<add_user(<<Word("Round"), Number(round.round_number + 1), Word("Green Card"),
                 CardName(round.green_card)>>)>>
    \o MovesMessages(g, round, Len(round.moves), player_idx)
    \o (IF round.decision # None
        THEN <<PlayedCardsMessage(round)>>
             \o DecisionMessages(round, player_idx, is_judge)
             \o WinnerMessages(g, round, player_idx)
        ELSE IF player_idx # round.judge THEN <<PlayedCardsMessage(round)>>
        ELSE <<>>)

create_game_history(g, player_idx, is_judge) ==
    LET RECURSIVE Rounds(_)
        Rounds(k) == IF k = 0 THEN <<>>
                     ELSE Rounds(k - 1) \o RoundMessages(g, g.rounds[k], player_idx, is_judge)
    IN  <<add_system(create_system_message(NumPlayers(g), player_idx + 1, g.total_rounds))>>
        \o Rounds(Len(g.rounds))

create_player_messages(g, player_idx, green_card, hand) ==
    create_game_history(g, player_idx, FALSE)
    \o <<add_user(create_player_prompt(player_idx, green_card, hand))>>

\* Defined when the game has a round: game.rounds[-1]
create_judge_messages(g, judge_idx) ==
    create_game_history(g, judge_idx, TRUE)
    \o <<PlayedCardsMessage(Last(g.rounds)), add_user(JUDGE_PROMPT)>>

\* ------------------------------------------------ games the prompts are for
\* The game rules with calls that pass a model_response: play_card and
\* judge_round keep its content as the raw_response of the move or decision
\* (the costs add_response adds up are not part of the model).  The two
\* functions of prompts.py are called on every game so reached.
WithMoveResponse(g, player_index, raw_response) ==
    LET k == Get(g.current_round) + 1
        at == {i \in DOMAIN g.rounds[k].moves : g.rounds[k].moves[i].player = player_index}
    IN  [g EXCEPT !.rounds[k].moves[CHOOSE i \in at : TRUE].raw_response = raw_response]

WithDecisionResponse(g, raw_response) ==
    LET k == Get(g.current_round) + 1
    IN  [g EXCEPT !.rounds[k].decision =
            Some([Get(g.rounds[k].decision) EXCEPT !.raw_response = raw_response])]

\* The players whose moves and decisions are made with a model response:
\* the first player alone, or all the others.
Responding(nplayers) == {{0}, (0..(nplayers - 1)) \ {0}}
ResponseOf(player_index) ==
    IF player_index \in driver.responding THEN Some("response") ELSE None

PromptInit ==
    \E nplayers \in 2..MaxPlayers, cards_per_hand \in 1..MaxHand,
       file \in {f \in RedFiles : Len(f) = RedCount} :
      \E responding \in Responding(nplayers) :
        /\ nplayers * cards_per_hand <= Len(file)
        /\ \E red \in FromFile(file), green \in FromFile(GreenFile(nplayers)) :
              game = NewGame(nplayers, cards_per_hand, red, green,
                             Len(GreenFile(nplayers)))
        /\ config = [cards_per_hand |-> cards_per_hand, red_cards |-> file,
                     green_cards |-> GreenFile(nplayers)]
        /\ last = [op |-> "new_game", exc |-> "none", msg |-> "none", missing |-> {}]
        /\ call = NoCall
        /\ driver = [pc |-> "none", responding |-> responding]

\* The games are explored up to MaxRounds rounds.
PromptStartRound ==
    /\ Len(game.rounds) < MaxRounds
    /\ \E r \in Succeeded(start_round(game)) :
          /\ game' = r.game
          /\ call' = NoCall
          /\ UNCHANGED <<last, config, driver>>

\* The moves of a round are made in the order of the players, as run_game
\* applies them.
PromptPlayCard ==
    \E player_index \in {p \in FreeToPlay(game) : \A q \in FreeToPlay(game) : p <= q},
       thinking \in Texts :
      \E card \in Range(game.players[player_index].hand) :
        \E r \in Succeeded(play_card(game, player_index, card, thinking)) :
            /\ game' = WithMoveResponse(r.game, player_index, ResponseOf(player_index))
            /\ call' = NoCall
            /\ UNCHANGED <<last, config, driver>>

PromptJudgeRound ==
    /\ TotalWins(game) < Len(config.green_cards)
    /\ \E winning_card \in JudgeChoices(game), reasoning \in Texts :
          \E r \in Succeeded(judge_round(game, winning_card, reasoning)) :
            /\ game' = WithDecisionResponse(r.game, ResponseOf(CurrentRound(game).judge))
            /\ call' = NoCall
            /\ UNCHANGED <<last, config, driver>>

\* model_move: create_player_messages(game, player_idx, green_card, player.hand)
AskPlayer ==
    /\ call = NoCall
    /\ HasCurrent(game)
    /\ \E player_idx \in PlayerIds(game) :
          call' = [fn |-> "create_player_messages", player |-> player_idx,
                   messages |-> create_player_messages(game, player_idx,
                                    CurrentRound(game).green_card,
                                    game.players[player_idx].hand)]
    /\ UNCHANGED <<game, last, config, driver>>

\* model_judge_move: create_judge_messages(game, round.judge); the function
\* takes any player as judge_idx.
AskJudge ==
    /\ call = NoCall
    /\ HasCurrent(game)
    /\ \E judge_idx \in PlayerIds(game) :
          call' = [fn |-> "create_judge_messages", player |-> judge_idx,
                   messages |-> create_judge_messages(game, judge_idx)]
    /\ UNCHANGED <<game, last, config, driver>>

PromptNext ==
    \/ PromptStartRound \/ PromptPlayCard \/ PromptJudgeRound
    \/ AskPlayer \/ AskJudge

PromptSpec == PromptInit /\ [][PromptNext]_vars

\* ------------------------------------------------- claims on the messages
\* The game with what player p is not to see written anew in the rounds of
\* the set: the thinking and raw response of the moves of the others, the
\* reasoning and raw response of the decisions of judges other than p.
OtherTexts == {"other"}
OtherResponses == {None, Some("other response")}
Rewritten(g, p, rounds, text, raw_response) ==
    LET NewMoveOf(move) ==
            IF move.player = p THEN move
            ELSE [move EXCEPT !.thinking = text, !.raw_response = raw_response]
        NewRoundOf(round) ==
            [round_number |-> round.round_number, green_card |-> round.green_card,
             judge |-> round.judge,
             moves |-> [i \in DOMAIN round.moves |-> NewMoveOf(round.moves[i])],
             decision |->
                IF round.decision = None \/ round.judge = p THEN round.decision
                ELSE Some([Get(round.decision) EXCEPT !.reasoning = text,
                                                      !.raw_response = raw_response])]
    IN  [g EXCEPT !.rounds = [k \in DOMAIN g.rounds |->
                                 IF k \in rounds THEN NewRoundOf(g.rounds[k])
                                 ELSE g.rounds[k]]]

\* The rounds two games differ in: one of them, or all.
RoundSets(g) == {{k} : k \in DOMAIN g.rounds} \cup {DOMAIN g.rounds}

\* The messages the call of the state builds on game g.
Built(g) ==
    IF call.fn = "create_player_messages"
    THEN create_player_messages(g, call.player, CurrentRound(game).green_card,
                                game.players[call.player].hand)
    ELSE create_judge_messages(g, call.player)

ClosedRounds(g) == {k \in DOMAIN g.rounds : g.rounds[k].decision # None}

\* C30: in a run of two players the winner of every closed round is the one
\* player who is not its judge, the round is among the rounds that player
\* won, and once two rounds are closed every player has won a round.
C30_TwoPlayersBothWin ==
    (driver.pc # "none" /\ NumPlayers(game) = 2) =>
        /\ \A k \in ClosedRounds(game) :
              LET round == game.rounds[k]
                  winner == Get(round.decision).winning_player
              IN  /\ PlayerIds(game) \ {round.judge} = {winner}
                  /\ DictKeys(round.moves) = {winner}
                  /\ round.round_number \in Range(game.players[winner].won_rounds)
        /\ Cardinality(ClosedRounds(game)) >= 2 =>
              \A p \in PlayerIds(game) : game.players[p].won_rounds # <<>>

\* A new run of two players has come to its end with two rounds closed.
C30_Witness ==
    /\ driver.pc = "done"
    /\ config.load_game = None
    /\ NumPlayers(game) = 2
    /\ Cardinality(ClosedRounds(game)) >= 2
    /\ \A p \in PlayerIds(game) : Len(game.players[p].won_rounds) = 1

\* ------------------------------------------------------- claims on Deck.draw
PileSize(deck) == Len(deck.draw_pile) + Len(deck.discard_pile)

\* C31: on each deck of the game, draw fails exactly when both piles are
\* empty and then leaves them empty.  Otherwise it returns the last card of
\* the draw pile and removes it, after an empty draw pile has been filled
\* with the discard pile in some order and the discard pile emptied: the two
\* piles together lose exactly the card returned.
C31_DrawContract ==
    \A deck \in {game.red_deck, game.green_deck} :
        \A r \in deck_draw(deck) :
            IF DeckEmpty(deck)
            THEN r.exc = "ValueError" /\ r.deck = deck /\ DeckEmpty(r.deck)
            ELSE /\ r.exc = "none"
                 /\ PileSize(r.deck) = PileSize(deck) - 1
                 /\ BagOfSeq(r.deck.draw_pile) (+) BagOfSeq(r.deck.discard_pile)
                       (+) SetToBag({Get(r.card)})
                    = BagOfSeq(deck.draw_pile) (+) BagOfSeq(deck.discard_pile)
                 /\ IF deck.draw_pile # <<>>
                    THEN /\ Get(r.card) = Last(deck.draw_pile)
                         /\ r.deck.draw_pile = Front(deck.draw_pile)
                         /\ r.deck.discard_pile = deck.discard_pile
                    ELSE /\ r.deck.discard_pile = <<>>
                         /\ BagOfSeq(Append(r.deck.draw_pile, Get(r.card)))
                               = BagOfSeq(deck.discard_pile)

\* A card was played and the card drawn for it had been played in an earlier
\* round: the draw took it from a discard pile of several cards moved to the
\* draw pile.
C31_Witness ==
    /\ last.op = "play_card" /\ last.exc = "none"
    /\ HasCurrent(game)
    /\ CurrentRound(game).moves # <<>>
    /\ game.red_deck.draw_pile # <<>>
    /\ \A i, j \in DOMAIN config.red_cards :
          config.red_cards[i] = config.red_cards[j] => i = j
    /\ \E k \in 1..(Len(game.rounds) - 1) :
          Last(CurrentRound(game).moves).drawn_card \in PlayedCards(game.rounds[k])

\* ----------------------------------------------- claims on a card played
\* The lines of red_cards.txt are pairwise different.
DistinctCards ==
    \A i, j \in DOMAIN config.red_cards : config.red_cards[i] = config.red_cards[j] => i = j

\* C32: a play_card that succeeds in a game of pairwise different red cards
\* leaves the card out of the hand of the player, the card drawn, which the
\* move records, at the end of that hand, the card played at the end of the
\* discard pile of the red deck, and the hand of every other player as it was.
C32_PlayCardEffect ==
    [][(Played("play_card") /\ last'.exc = "none" /\ DistinctCards) =>
          LET move == Last(CurrentRound(game').moves)
              player == move.player
          IN  /\ Len(CurrentRound(game').moves) = Len(CurrentRound(game).moves) + 1
              /\ move.played_card \in Range(game.players[player].hand)
              /\ move.played_card \notin Range(game'.players[player].hand)
              /\ game'.players[player].hand # <<>>
              /\ move.drawn_card = Last(game'.players[player].hand)
              /\ game'.red_deck.discard_pile # <<>>
              /\ Last(game'.red_deck.discard_pile) = move.played_card
              /\ \A other \in PlayerIds(game) \ {player} :
                    game'.players[other].hand = game.players[other].hand]_vars

\* The second player of a round of three players has played a card of a
\* hand of different cards.
C32_Witness ==
    /\ last.op = "play_card" /\ last.exc = "none"
    /\ DistinctCards
    /\ NumPlayers(game) = 3
    /\ HasCurrent(game)
    /\ Len(CurrentRound(game).moves) = 2

\* ------------------------------------------ claims on the tasks of a round
\* Requests of the round are in flight: asyncio.gather has not returned.
InFlight(d) == d.pc = "gather" /\ d.pending # {}

\* C33: while requests of a round are in flight the round has no move, as
\* when it was started, and no step changes the hands, the won rounds or a
\* deck; the rounds stay as they are while the run is in the gather, and no
\* task changes them: they change only when a KeyboardInterrupt ends the try
\* block and its handler discards the round.  play_card is called when the
\* requests have all been joined, not before.
C33_TasksLeaveGame ==
    [][InFlight(driver) =>
          /\ Last(game.rounds).moves = <<>>
          /\ game'.players = game.players
          /\ game'.red_deck = game.red_deck
          /\ game'.green_deck = game.green_deck
          /\ game'.current_round = game.current_round
          /\ \/ game'.rounds = game.rounds
             \/ /\ driver'.pc = "finally" /\ driver'.interrupt = "gather"
                /\ driver'.exc = "none"
                /\ game'.rounds = Front(game.rounds)
          /\ driver'.pc = "gather" => game' = game]_vars

\* In a round of three players the answer of one player is in and the
\* request of the other, a model, is in flight.
C33_Witness ==
    /\ InFlight(driver)
    /\ NumPlayers(game) = 3
    /\ \E p \in PlayerIds(game) : driver.results[p] # None
    /\ \E p \in driver.pending : driver.models[p] = "model"

\* ------------------------------------- claims on the calls run_game makes
\* The messages of the checks of play_card and judge_round on their
\* arguments and on the state of the round.
InvalidMoveMessages ==
    LegalityMessages \cup {"Waiting for players to play", "was not played this round"}

\* C34: run_game makes no call of play_card or judge_round that is rejected
\* by a check on the move.  When the results of a round are processed each
\* card is in the hand of its player, who is not the judge and has no move in
\* the round; a play_card of the run fails only on a red deck without cards;
\* the card of every decision of the run is a card played in its round, by
\* the player the decision names.
C34_NoInvalidMove ==
    /\ [][(driver.pc \in {"gather", "judging"}
             /\ last'.op \in {"play_card", "judge_round"} /\ last' # last) =>
             /\ last'.msg \notin InvalidMoveMessages
             /\ last'.exc # "IndexError"
             /\ (last'.op = "play_card" /\ last'.exc # "none") =>
                    /\ last'.msg = "No more red cards in deck"
                    /\ DeckEmpty(game.red_deck)]_vars
    /\ [](InTry(driver) /\ driver.pc = "gather" /\ Gathered(driver) =>
            /\ HasCurrent(game)
            /\ \A p \in ToApply(driver) :
                  /\ Get(driver.results[p]).card \in Range(game.players[p].hand)
                  /\ p # CurrentRound(game).judge
                  /\ p \notin DictKeys(CurrentRound(game).moves))
    /\ [][(driver.pc \in {"gather", "judging"} /\ driver'.pc = "while") =>
             LET round == Last(game'.rounds)
                 decision == Get(round.decision)
             IN  /\ round.decision # None
                 /\ DictKeys(round.moves) = PlayerIds(game) \ {round.judge}
                 /\ \E i \in DOMAIN round.moves :
                       /\ round.moves[i].played_card = decision.winning_card
                       /\ round.moves[i].player = decision.winning_player]_vars

\* A round of three players with a model among the players and a model for
\* the judge has been played and judged by the run.
C34_Witness ==
    /\ driver.pc = "while"
    /\ last.op = "judge_round" /\ last.exc = "none"
    /\ NumPlayers(game) = 3
    /\ game.rounds # <<>>
    /\ Last(game.rounds).decision # None
    /\ driver.models[Last(game.rounds).judge] = "model"
    /\ \E p \in DictKeys(Last(game.rounds).moves) : driver.models[p] = "model"

\* C35: the requests of a round do not wait for one another.  While requests
\* are in flight every one of them can take its step, whichever others are
\* still waiting for their agent: its task can return its result, which
\* takes it from the pending ones and leaves the others and their results
\* as they are; and when one has returned, each of the others can still
\* take its own.
C35_RequestsIndependent ==
    /\ [](InFlight(driver) =>
            \A p \in driver.pending :
                /\ p \in Ready(driver)
                /\ \E d \in TaskOutcomes(p) :
                      /\ d.pc = "gather"
                      /\ d.pending = driver.pending \ {p}
                      /\ d.results[p] # None
                      /\ \A q \in DOMAIN d.results \ {p} : d.results[q] = driver.results[q])
    /\ [][(InFlight(driver) /\ driver'.pc = "gather") =>
             /\ \E p \in driver.pending : driver'.pending = driver.pending \ {p}
             /\ \A q \in driver'.pending :
                   q \in Ready(driver') /\ driver'.results[q] = None]_vars

\* Two requests of a round are in flight, one of them to a model.
C35_Witness ==
    /\ InFlight(driver)
    /\ Cardinality(driver.pending) = 2
    /\ \E q \in driver.pending : driver.models[q] = "model"
    /\ \E q \in driver.pending : driver.models[q] = "random"

LeftAfterDeal == Len(config.red_cards) - NumPlayers(game) * config.cards_per_hand

\* C37: the red deck holds in its two piles as many cards as new_game left in
\* it, in every state; so when the deal left a card the deck is never without
\* cards and no play_card fails for want of a card to draw.
C37_RedPilesConstant ==
    /\ PileSize(game.red_deck) = LeftAfterDeal
    /\ LeftAfterDeal >= 1 =>
          /\ ~DeckEmpty(game.red_deck)
          /\ last.msg # "No more red cards in deck"

\* The deal left one red card and the third card of the game has been
\* played with it.
C37_Witness ==
    /\ LeftAfterDeal = 1
    /\ last.op = "play_card" /\ last.exc = "none"
    /\ MovesRecorded(game) >= 3

\* The green cards a run begins with: green_cards.txt in a new game, what the
\* loaded game has left in a resumed one.
GreenAtStart ==
    IF config.load_game = None THEN Len(config.green_cards)
    ELSE Len(Loaded.green_deck.draw_pile) + Len(Loaded.rounds)

\* C38: no green card returns to its deck.  The discard pile of the green
\* deck is empty in every state of a run; a start_round that succeeds takes
\* the last card of the draw pile and no other step changes the deck, the
\* discarding of an interrupted round included; the rounds of the game never
\* outnumber the cards taken, and start_round fails once the draw pile is
\* empty.
C38_GreenCardsConsumed ==
    /\ [](/\ game.green_deck.discard_pile = <<>>
          /\ Len(game.rounds) + Len(game.green_deck.draw_pile) <= GreenAtStart
          /\ Len(game.rounds) + Len(game.green_deck.draw_pile) < GreenAtStart =>
                driver.interrupt # "none"
          /\ Len(game.green_deck.draw_pile) <= Len(config.green_cards))
    /\ [][IF driver.pc = "while" /\ driver'.pc = "gather"
          THEN /\ game.green_deck.draw_pile # <<>>
               /\ game'.green_deck.draw_pile = Front(game.green_deck.draw_pile)
               /\ Last(game'.rounds).green_card = Last(game.green_deck.draw_pile)
          ELSE game'.green_deck = game.green_deck]_vars
    /\ [][(driver.pc = "while" /\ RoundsLeft(game, driver.num_rounds)
             /\ game.green_deck.draw_pile = <<>> /\ driver'.interrupt = "none") =>
             /\ last'.op = "start_round" /\ last'.exc = "ValueError"
             /\ game' = game
             /\ driver'.pc = "finally"]_vars

\* An interrupted round of a new run was discarded and the run has ended:
\* the game has fewer rounds than green cards were taken.
C38_Witness ==
    /\ driver.pc = "done"
    /\ config.load_game = None
    /\ driver.interrupt = "gather"
    /\ driver.exc = "none"
    /\ game.rounds # <<>>
    /\ Len(game.rounds) + Len(game.green_deck.draw_pile) = Len(config.green_cards) - 1

\* ------------------------------------- claims on the order of the results
Ascending(moves) ==
    \A i, j \in DOMAIN moves : i < j => moves[i].player < moves[j].player

\* C39: the results of a round are played when all requests have returned,
\* in ascending order of the players whatever the order the requests
\* returned in: each play_card of the run plays the result of the lowest
\* player whose result is still to be played, with the card of that result;
\* the moves of a round of the run are recorded in ascending order of their
\* players, below every player still to be played.
C39_AppliedInPlayerOrder ==
    /\ [][(driver.pc = "gather" /\ driver'.pc = "gather" /\ game' # game) =>
             LET p == NextToApply(driver)
                 move == Last(Last(game'.rounds).moves)
             IN  /\ Gathered(driver)
                 /\ \A q \in ToApply(driver) : p <= q
                 /\ ToApply(driver') = ToApply(driver) \ {p}
                 /\ Last(game'.rounds).moves = Append(Last(game.rounds).moves, move)
                 /\ move.player = p
                 /\ move.played_card = Get(driver.results[p]).card]_vars
    /\ [](driver.pc \in {"gather", "judging"} =>
            /\ Ascending(Last(game.rounds).moves)
            /\ \A i \in DOMAIN Last(game.rounds).moves, q \in ToApply(driver) :
                  Last(game.rounds).moves[i].player < q)
    /\ [](MovesApplied(driver) =>
            DictKeys(Last(game.rounds).moves) = PlayerIds(game) \ {Last(game.rounds).judge})

\* The two results of a round of three players, judged by the second, have
\* been played, and one of the two players is a model.
C39_Witness ==
    /\ MovesApplied(driver)
    /\ NumPlayers(game) = 3
    /\ Last(game.rounds).judge = 1
    /\ Len(Last(game.rounds).moves) = 2
    /\ \E p \in {0, 2} : driver.models[p] = "model"
    /\ \E p \in {0, 2} : driver.models[p] = "random"

\* ------------------------------------------------------------ async_retry
\* model_utils.py and utils.py hold the same decorator. The delays are
\* counted in units of the delay of call_model (0.1 s).
MaxTries == 3
MaxDelay == 2
MaxBackoff == 2

\* What one invocation of the wrapped function does: it returns a value,
\* raises an Exception, or raises a BaseException that is no Exception
\* (asyncio.CancelledError).
FuncResults == {"r1", "r2"}
FuncErrors == {"e1", "e2"}
FuncOutcomes ==
    {[kind |-> "return", exc |-> "none", value |-> v] : v \in FuncResults}
    \cup {[kind |-> "raise", exc |-> "Exception", value |-> m] : m \in FuncErrors}
    \cup {[kind |-> "raise", exc |-> "CancelledError", value |-> "cancelled"]}

\* except Exception
IsException(outcome) == outcome.kind = "raise" /\ outcome.exc = "Exception"

\* Mutant: the last failure is handled like the others.
ExhaustedNever(tries) == FALSE

\* if _tries == 0: raise
Exhausted(tries) == tries = 0

\* The wrapper is called: _tries, _delay = tries, delay
RetryInit ==
    /\ \E tries \in 0..MaxTries, delay \in 0..MaxDelay, backoff \in 1..MaxBackoff :
          /\ config = [tries |-> tries, delay |-> delay, backoff |-> backoff]
          /\ driver = [pc |-> "while", tries |-> tries, delay |-> delay,
                       attempts |-> <<>>, waits |-> <<>>]
    /\ game = None
    /\ call = NoCall
    /\ last = [op |-> "wrapper", exc |-> "none", value |-> None]

Finished(exc, value) == [op |-> "wrapper", exc |-> exc, value |-> value]

\* while _tries > 0: ... await func(*args, **kwargs)
Invoke ==
    /\ driver.pc = "while"
    /\ driver.tries > 0
    /\ call' = [fn |-> "func", attempt |-> Len(driver.attempts) + 1]
    /\ driver' = [driver EXCEPT !.pc = "await"]
    /\ UNCHANGED <<game, last, config>>

\* return await func(*args, **kwargs)
FuncReturns ==
    /\ driver.pc = "await"
    /\ \E outcome \in FuncOutcomes :
          /\ outcome.kind = "return"
          /\ driver' = [driver EXCEPT !.pc = "done",
                                      !.attempts = Append(@, outcome)]
          /\ last' = Finished("none", Some(outcome.value))
    /\ call' = NoCall
    /\ UNCHANGED <<game, config>>

\* The function raises: an exception that is no Exception leaves the wrapper;
\* an Exception costs one try, leaves the wrapper when none is left, and is
\* followed by asyncio.sleep(_delay) otherwise.
FuncRaises ==
    /\ driver.pc = "await"
    /\ \E outcome \in FuncOutcomes :
          /\ outcome.kind = "raise"
          /\ LET attempts == Append(driver.attempts, outcome)
                 tries == driver.tries - 1
             IN  IF ~IsException(outcome)
                 THEN /\ driver' = [driver EXCEPT !.pc = "done", !.attempts = attempts]
                      /\ last' = Finished(outcome.exc, Some(outcome.value))
                 ELSE IF Exhausted(tries)
                 THEN /\ driver' = [driver EXCEPT !.pc = "done", !.tries = tries,
                                                  !.attempts = attempts]
                      /\ last' = Finished(outcome.exc, Some(outcome.value))
                 ELSE /\ driver' = [driver EXCEPT !.pc = "sleep", !.tries = tries,
                                                  !.attempts = attempts,
                                                  !.waits = Append(@, driver.delay)]
                      /\ last' = last
    /\ call' = NoCall
    /\ UNCHANGED <<game, config>>

\* asyncio.sleep returns: _delay *= backoff
SleepDone ==
    /\ driver.pc = "sleep"
    /\ driver' = [driver EXCEPT !.pc = "while", !.delay = @ * config.backoff]
    /\ UNCHANGED <<game, last, config, call>>

\* The task is cancelled in asyncio.sleep.
SleepCancelled ==
    /\ driver.pc = "sleep"
    /\ driver' = [driver EXCEPT !.pc = "done"]
    /\ last' = Finished("CancelledError", Some("cancelled"))
    /\ UNCHANGED <<game, config, call>>

\* The loop ends: return None
ReturnNone ==
    /\ driver.pc = "while"
    /\ ~(driver.tries > 0)
    /\ driver' = [driver EXCEPT !.pc = "done"]
    /\ last' = Finished("none", None)
    /\ UNCHANGED <<game, config, call>>

RetryNext ==
    \/ Invoke
    \/ FuncReturns
    \/ FuncRaises
    \/ SleepDone
    \/ SleepCancelled
    \/ ReturnNone

RetrySpec == RetryInit /\ [][RetryNext]_vars

\* ------------------------------------------------- claims on async_retry
RECURSIVE Power(_, _)
Power(b, k) == IF k = 0 THEN 1 ELSE b * Power(b, k - 1)

AllExceptions(attempts) == \A i \in DOMAIN attempts : IsException(attempts[i])

\* C40: with tries = n >= 1 the wrapper invokes the function at most n times
\* and only after attempts that raised an Exception; it returns the value of
\* the attempt that returned, which is the last one made; when n attempts have
\* raised an Exception it has left with the exception of the n-th; it has
\* begun at most n - 1 waits, the k-th of length delay * backoff^(k-1), one
\* after each failed attempt but the n-th, and is never waiting or looping
\* after the n-th failure.
C40_RetryContract ==
    config.tries >= 1 =>
        LET n == config.tries
            attempts == driver.attempts
            waits == driver.waits
        IN  /\ Len(attempts) <= n
            /\ call # NoCall => call.attempt <= n
            /\ \A i \in DOMAIN attempts : i < Len(attempts) => IsException(attempts[i])
            /\ (driver.pc = "done" /\ last.exc = "none") =>
                  /\ attempts # <<>>
                  /\ Last(attempts).kind = "return"
                  /\ last.value = Some(Last(attempts).value)
            /\ (attempts # <<>> /\ Last(attempts).kind = "return") =>
                  /\ driver.pc = "done"
                  /\ last.exc = "none"
            /\ (Len(attempts) = n /\ AllExceptions(attempts)) =>
                  /\ driver.pc = "done"
                  /\ last.exc = attempts[n].exc
                  /\ last.value = Some(attempts[n].value)
                  /\ Len(waits) = n - 1
            /\ Len(waits) <= n - 1
            /\ \A k \in DOMAIN waits :
                  /\ waits[k] = config.delay * Power(config.backoff, k - 1)
                  /\ k <= Len(attempts)
                  /\ IsException(attempts[k])
            /\ driver.pc \in {"while", "await"} => Len(waits) = Len(attempts)
            /\ driver.pc = "sleep" => Len(waits) = Len(attempts)

\* Three tries that all raised an Exception, the last with another message
\* than the first, after two waits of different lengths.
C40_Witness ==
    /\ config.tries = 3
    /\ driver.pc = "done"
    /\ Len(driver.attempts) = 3
    /\ AllExceptions(driver.attempts)
    /\ driver.attempts[1].value # driver.attempts[3].value
    /\ last.exc = "Exception"
    /\ Len(driver.waits) = 2
    /\ driver.waits[1] # driver.waits[2]


====
